---- MODULE Spec2Model ----
(***************************************************************************)
(* Review orchestration pipeline of the AI code reviewer bot.              *)
(*                                                                         *)
(* The module models the Celery task process_pr_review and the pipeline    *)
(* _run_review_process it drives (jobs/review_task.py), the installation   *)
(* token cache of the GitHub client (services/github_service.py), the     *)
(* validation and capping of the AI response (services/ai_service.py) and  *)
(* the two tables the task writes (db/models.py).                          *)
(*                                                                         *)
(* Fault model.  Every call to an external service (GitHub, the AI model)  *)
(* may fail, and so may the database writes issued inside the try block    *)
(* of the task.  A second fault inside the except block of the task (the   *)
(* bookkeeping write of the failure handler) is outside the fault model,   *)
(* and so is the worker being killed by the hard time limit.               *)
(* The task is run by a Celery worker, which delivers each retry the task   *)
(* asks for with self.request.retries one higher.                          *)
(***************************************************************************)
EXTENDS Integers, Sequences, FiniteSets, TLC

\* ------------------------------------------------------------------ bounds
\* Largest value of the clock (seconds)
MaxClock == 1

\* -------------------------------------------------------- program constants
\* @celery_app.task(bind=True, max_retries=3, default_retry_delay=60)
max_retries == 3
\* countdown = 60 * (2 ** self.request.retries)
retry_base_delay == 60
\* expires_at = now + timedelta(seconds=expires_in - 60)
token_safety_margin == 60
\* settings.max_comments_per_pr
max_comments_per_pr == 20
\* HTTP status codes the GitHub client tests for
HTTP_OK == 200
HTTP_CREATED == 201

\* Python's None, for columns and variables holding strings
None == "None"
\* review_session_id = None (a falsy id; row ids start at 1)
NoSessionId == 0
\* no exception / a NULL error_message, a NULL error_details
NoError == <<>>

\* --------------------------------------------------------------- utilities
RECURSIVE Pow2(_)
Pow2(n) == IF n = 0 THEN 1 ELSE 2 * Pow2(n - 1)

Range(s) == {s[i] : i \in DOMAIN s}

\* f"{prefix}: {status_code}", the str() of the exceptions the client raises
Message(prefix, code) == <<prefix, code>>

RECURSIVE SumSeq(_)
SumSeq(s) == IF s = <<>> THEN 0 ELSE Head(s) + SumSeq(Tail(s))

\* ------------------------------------------------------------ task inputs
TaskId == "task-1"
InstallationId == "inst-1"
InstallationIds == {"inst-1", "inst-2"}

\* (action, focus_area) of a webhook delivery and of a manual trigger
WebhookArgs == [action |-> "opened", focus_area |-> None]
ManualArgs == [action |-> "manual_trigger", focus_area |-> "security"]

\* The file list GitHub reports for the pull request
PullRequestFiles ==
    << [filename |-> "a.py", status |-> "modified", additions |-> 2, deletions |-> 1],
       [filename |-> "old.py", status |-> "removed", additions |-> 0, deletions |-> 3],
       [filename |-> "b.py", status |-> "added", additions |-> 1, deletions |-> 0] >>

\* ------------------------------------------------- AI response and its checks
Severities == {"high", "medium", "low", "nit"}
Categories == {"security", "performance", "bug", "style", "architecture", "testing"}
RiskLevels == {"Low", "Medium", "High"}
Recommendations == {"approve", "request_changes", "comment"}

required_fields == {"inline_comments", "summary", "risk", "breaking_changes", "approval_recommendation"}
comment_fields == {"path", "start_line", "end_line", "severity", "category", "comment"}

Comment(path, line, sev, cat, text) ==
    [path |-> path, start_line |-> line, end_line |-> line,
     severity |-> sev, category |-> cat, comment |-> text]

Review(comments, risk, rec) ==
    [inline_comments |-> comments, summary |-> <<"summary">>, risk |-> risk,
     breaking_changes |-> FALSE, approval_recommendation |-> rec]

ReviewNoComments == Review(<<>>, "Low", "approve")
ReviewTwoFiles ==
    Review(<< Comment("a.py", 1, "high", "bug", "c1"),
              Comment("b.py", 2, "low", "style", "c2") >>, "High", "request_changes")
ReviewDuplicates ==
    Review(<< Comment("a.py", 1, "medium", "bug", "c1"),
              Comment("a.py", 1, "medium", "bug", "c1") >>, "Medium", "comment")
ReviewBadSeverity ==
    Review(<< Comment("a.py", 1, "blocker", "bug", "c1") >>, "Low", "approve")

\* The JSON documents the model may answer with (parsed)
AIResponses == {ReviewNoComments, ReviewTwoFiles, ReviewDuplicates, ReviewBadSeverity}

\* A review the model is run on: the task message, the files of the pull
\* request, the answer the AI model gives for it and the lifetime of the
\* installation tokens GitHub grants meanwhile
Scenario(args, answer, expires_in) ==
    [request |-> [id |-> TaskId, args |-> args],
     pull |-> [files |-> PullRequestFiles, answer |-> answer],
     expires_in |-> expires_in]

\* isinstance(review_data["inline_comments"], list): a JSON array is a
\* sequence; a JSON value of another type is a function on another domain
IsList(v) == DOMAIN v = 1..Cardinality(DOMAIN v)

\* Fault variant: the category of a comment is not tested
CommentError_NoCategory(comment) ==
    IF ~(comment_fields \subseteq DOMAIN comment)
    THEN Message("Missing required field in comment", 0)
    ELSE IF comment.severity \notin Severities
    THEN Message("Invalid severity", 0)
    ELSE NoError

\* The body of the loop over the comments: the error one comment raises
CommentError(comment) ==
    IF ~(comment_fields \subseteq DOMAIN comment)
    THEN Message("Missing required field in comment", 0)
    ELSE IF comment.severity \notin Severities
    THEN Message("Invalid severity", 0)
    ELSE IF comment.category \notin Categories
    THEN Message("Invalid category", 0)
    ELSE NoError

\* The loop over the comments stops at the first comment that raises
FirstCommentError(cs) ==
    LET bad == {i \in DOMAIN cs : CommentError(cs[i]) # NoError}
    IN  IF bad = {} THEN NoError
        ELSE CommentError(cs[CHOOSE i \in bad : \A k \in bad : i <= k])

\* AIService._validate_review_response: the error it raises, NoError when valid
ValidationError(r) ==
    IF ~(required_fields \subseteq DOMAIN r)
    THEN Message("Missing required field", 0)
    ELSE IF ~IsList(r.inline_comments)
    THEN Message("inline_comments must be a list", 0)
    ELSE IF FirstCommentError(r.inline_comments) # NoError
    THEN FirstCommentError(r.inline_comments)
    ELSE IF r.risk \notin RiskLevels
    THEN Message("Invalid risk level", 0)
    ELSE IF r.approval_recommendation \notin Recommendations
    THEN Message("Invalid approval recommendation", 0)
    ELSE NoError

\* severity_order = {"high": 4, "medium": 3, "low": 2, "nit": 1}; .get(x, 0)
severity_order(sev) ==
    CASE sev = "high" -> 4 [] sev = "medium" -> 3 [] sev = "low" -> 2
      [] sev = "nit" -> 1 [] OTHER -> 0

WithRank(cs, k) == SelectSeq(cs, LAMBDA c : severity_order(c.severity) = k)

\* Fault variant: the sort without reverse=True
SortBySeverity_Ascending(cs) ==
    WithRank(cs, 0) \o WithRank(cs, 1) \o WithRank(cs, 2) \o WithRank(cs, 3) \o WithRank(cs, 4)

\* list.sort(key=severity_order, reverse=True): stable, descending
SortBySeverity(cs) ==
    WithRank(cs, 4) \o WithRank(cs, 3) \o WithRank(cs, 2) \o WithRank(cs, 1) \o WithRank(cs, 0)

\* Fault variant: the limit applies to a list that is exactly at the limit too
CapComments_AtLimit(r, max_comments) ==
    IF Len(r.inline_comments) >= max_comments
    THEN [r EXCEPT !.inline_comments = SubSeq(SortBySeverity(r.inline_comments), 1, max_comments),
                   !.summary = Append(r.summary, "limited")]
    ELSE r

\* AIService.review_code_changes_batch, the comment cap
CapComments(r, max_comments) ==
    IF Len(r.inline_comments) > max_comments
    THEN [r EXCEPT !.inline_comments = SubSeq(SortBySeverity(r.inline_comments), 1, max_comments),
                   !.summary = Append(r.summary, "limited")]
    ELSE r

\* ------------------------------------------------------ GitHub client (token)
\* The lifetimes the token endpoint grants: one a cached token does not
\* survive (it is within the safety margin) and one it does
ShortLived == token_safety_margin
LongLived == token_safety_margin + 1

\* The answers of POST /app/installations/{id}/access_tokens when the endpoint
\* grants the lifetime expires_in
TokenResponses(expires_in) ==
    [status_code : {HTTP_CREATED, 401},
     token : {"tok"},
     expires_in : {expires_in}]

\* Fault variant: an entry is returned whatever its expiry
CacheHit_IgnoreExpiry(cache, installation_id, t) ==
    cache[installation_id] # NoError

\* GitHubService._get_installation_token: the cache test
CacheHit(cache, installation_id, t) ==
    /\ cache[installation_id] # NoError
    /\ cache[installation_id].expires_at > t

\* Fault variant: the status of the exchange is not tested, whatever the
\* endpoint answered is cached and used
get_installation_token_Unchecked(cache, installation_id, t, resp) ==
    IF CacheHit(cache, installation_id, t)
    THEN [cache |-> cache, token |-> cache[installation_id].token,
          error |-> NoError, exchanged |-> FALSE]
    ELSE [cache |-> [cache EXCEPT ![installation_id] =
                        [token |-> resp.token,
                         expires_at |-> t + (resp.expires_in - token_safety_margin)]],
          token |-> resp.token, error |-> NoError, exchanged |-> TRUE]

\* Fault variant: the expiry is cached without the safety margin
ExchangeResult_NoMargin(cache, installation_id, t, resp) ==
    IF resp.status_code # HTTP_CREATED
    THEN [cache |-> cache, token |-> None,
          error |-> Message("Failed to get installation token", resp.status_code),
          exchanged |-> TRUE]
    ELSE [cache |-> [cache EXCEPT ![installation_id] =
                        [token |-> resp.token, expires_at |-> t + resp.expires_in]],
          token |-> resp.token, error |-> NoError, exchanged |-> TRUE]

\* Fault variant: a refused exchange drops the entry of the installation
ExchangeResult_EvictOnError(cache, installation_id, t, resp) ==
    IF resp.status_code # HTTP_CREATED
    THEN [cache |-> [cache EXCEPT ![installation_id] = NoError], token |-> None,
          error |-> Message("Failed to get installation token", resp.status_code),
          exchanged |-> TRUE]
    ELSE [cache |-> [cache EXCEPT ![installation_id] =
                        [token |-> resp.token,
                         expires_at |-> t + (resp.expires_in - token_safety_margin)]],
          token |-> resp.token, error |-> NoError, exchanged |-> TRUE]

\* Fault variant: an entry that exists gets the new token and keeps its expiry
ExchangeResult_TornWrite(cache, installation_id, t, resp) ==
    IF resp.status_code # HTTP_CREATED
    THEN [cache |-> cache, token |-> None,
          error |-> Message("Failed to get installation token", resp.status_code),
          exchanged |-> TRUE]
    ELSE [cache |-> [cache EXCEPT ![installation_id] =
                        [token |-> resp.token,
                         expires_at |-> IF cache[installation_id] # NoError
                                        THEN cache[installation_id].expires_at
                                        ELSE t + (resp.expires_in - token_safety_margin)]],
          token |-> resp.token, error |-> NoError, exchanged |-> TRUE]

\* GitHubService._get_installation_token, lines 88-106: what the code does at
\* time t with the answer resp of the exchange
ExchangeResult(cache, installation_id, t, resp) ==
    IF resp.status_code # HTTP_CREATED
    THEN [cache |-> cache, token |-> None,
          error |-> Message("Failed to get installation token", resp.status_code),
          exchanged |-> TRUE]
    ELSE [cache |-> [cache EXCEPT ![installation_id] =
                        [token |-> resp.token,
                         expires_at |-> t + (resp.expires_in - token_safety_margin)]],
          token |-> resp.token, error |-> NoError, exchanged |-> TRUE]

\* GitHubService._get_installation_token(installation_id) at time t, when the
\* token endpoint answers resp: the new cache, the token or the error raised
get_installation_token(cache, installation_id, t, resp) ==
    IF CacheHit(cache, installation_id, t)
    THEN [cache |-> cache, token |-> cache[installation_id].token,
          error |-> NoError, exchanged |-> FALSE]
    ELSE ExchangeResult(cache, installation_id, t, resp)

\* The reviews the model is run on
Scenarios ==
    { Scenario(WebhookArgs, ReviewTwoFiles, LongLived),
      Scenario(ManualArgs, ReviewDuplicates, LongLived),
      Scenario(WebhookArgs, ReviewNoComments, ShortLived),
      Scenario(ManualArgs, ReviewBadSeverity, ShortLived) }

\* ------------------------------------------------------------------ state
VARIABLES
    sessions,              \* table review_sessions: row id -> row
    comments,              \* table review_comments: row id -> row
    _installation_tokens,  \* GitHubService._installation_tokens
    now,                   \* the wall clock, seconds
    request,               \* the task message: id, action, focus_area
    pull,                  \* the pull request: its files, the model's answer for it
    granted,               \* the expires_in of the tokens GitHub grants
    retries,               \* self.request.retries
    pc,                    \* position of the task
    review_session_id,     \* local of process_pr_review
    err,                   \* the exception being propagated
    pr_files,              \* local of _run_review_process
    file_queue,            \* files whose content is still to be fetched
    file_paths,            \* local of _run_review_process
    file_contents,         \* local of _run_review_process (the keys)
    review_data,           \* local of _run_review_process
    post_queue,            \* files of comments_by_file still to be posted
    posts,                 \* reviews GitHub accepted, in order
    check_runs,            \* check runs GitHub accepted, in order
    scheduled,             \* countdowns of the retries handed to the queue
    trace,                 \* steps of the current attempt that finished
    calls,                 \* external calls issued by the current attempt
    warnings,              \* errors the current attempt caught and logged
    rejections,            \* token exchanges of the current attempt answered with an error
    callers,               \* GitHubService operations in progress: caller -> its position
    arg,                   \* argument of the function under study
    result,                \* what the function returned or raised
    analysis,              \* AnalyzerService.analyze_files in progress: its locals
    background_tasks,      \* the BackgroundTasks of the HTTP request: calls to make after the response
    job_queue,             \* the messages published to the Celery broker by the web application
    workers                \* the tasks running side by side: worker -> its position and locals

vars == <<sessions, comments, _installation_tokens, now, request, pull, granted, retries, pc,
          review_session_id, err, pr_files, file_queue, file_paths,
          file_contents, review_data, post_queue, posts, check_runs,
          scheduled, trace, calls, warnings, rejections, callers, arg, result, analysis,
          background_tasks, job_queue, workers>>

\* The variables of one task and its pipeline, but the token cache and the clock
task_vars == <<sessions, comments, request, pull, granted, retries, pc,
               review_session_id, err, pr_files, file_queue, file_paths,
               file_contents, review_data, post_queue, posts, check_runs,
               scheduled, trace, calls, warnings, rejections>>

\* The variables the task and its pipeline do not touch
client_vars == <<callers>>
call_vars == <<arg, result, analysis, background_tasks, job_queue, workers>>

web_vars == <<background_tasks, job_queue>>

db == <<sessions, comments>>
github == <<posts, check_runs>>
locals == <<pr_files, file_queue, file_paths, file_contents, review_data, post_queue>>

NoReview == Review(<<>>, None, None)

\* No function of the AI service has been called, or none has returned
NotCalled == <<>>

Init ==
    /\ sessions = <<>>
    /\ comments = <<>>
    /\ _installation_tokens = [i \in InstallationIds |-> NoError]
    /\ now = 0
    /\ \E s \in Scenarios :
         /\ request = s.request
         /\ pull = s.pull
         /\ granted = s.expires_in
    /\ retries = 0
    /\ pc = "create_session"
    /\ review_session_id = NoSessionId
    /\ err = NoError
    /\ pr_files = <<>>
    /\ file_queue = <<>>
    /\ file_paths = <<>>
    /\ file_contents = {}
    /\ review_data = NoReview
    /\ post_queue = <<>>
    /\ posts = <<>>
    /\ check_runs = <<>>
    /\ scheduled = <<>>
    /\ trace = <<>>
    /\ calls = 0
    /\ warnings = {}
    /\ rejections = 0
    /\ callers = <<>>
    /\ arg = NotCalled
    /\ result = NotCalled
    /\ analysis = NotCalled
    /\ background_tasks = <<>>
    /\ job_queue = <<>>
    /\ workers = <<>>

\* ------------------------------------------------------ order of the steps
\* The statements of process_pr_review and _run_review_process, in the order
\* the code executes them; each names the position of the task before it
PipelineOrder ==
    << "create_session", "get_pull_request", "get_pull_request_diff",
       "get_pull_request_files", "get_repository_languages", "get_file_content",
       "review_code_changes_batch", "save_comments", "post_review_comment",
       "create_check_run", "mark_completed", "success" >>

NextIn(order, step) ==
    LET i == CHOOSE k \in DOMAIN order : order[k] = step IN order[i + 1]

\* Fault variant: the session is marked completed without a check run
StepAfter_NoCheckRun(step) ==
    NextIn(<< "create_session", "get_pull_request", "get_pull_request_diff",
              "get_pull_request_files", "get_repository_languages", "get_file_content",
              "review_code_changes_batch", "save_comments", "post_review_comment",
              "mark_completed", "success" >>, step)

\* Fault variant: the comments are posted before they are persisted
StepAfter_PostFirst(step) ==
    NextIn(<< "create_session", "get_pull_request", "get_pull_request_diff",
              "get_pull_request_files", "get_repository_languages", "get_file_content",
              "review_code_changes_batch", "post_review_comment", "save_comments",
              "create_check_run", "mark_completed", "success" >>, step)

\* Fault variant: an exception is raised after the completed status was committed
StepAfter_RaiseAfterCompleted(step) ==
    IF step = "mark_completed" THEN "handler" ELSE NextIn(PipelineOrder, step)

\* Where the task continues when the step finished without an exception
StepAfter(step) == NextIn(PipelineOrder, step)

\* --------------------------------------------------------------- the tables
Some(x) == <<x>>

\* Fault variant: the insert leaves status to the column default
NewSessionRow_Pending ==
    [status |-> "pending",
     risk_level |-> None,
     approval_recommendation |-> None,
     breaking_changes |-> FALSE,
     files_changed |-> <<>>,
     lines_added |-> 0,
     lines_removed |-> 0,
     completed_at |-> FALSE,
     error_message |-> NoError,
     error_details |-> NoError]

\* ReviewSession(owner, repo, pull_number, installation_id, status="in_progress",
\* started_at=...): the row the task inserts; the other columns take their defaults
NewSessionRow ==
    [status |-> "in_progress",
     risk_level |-> None,
     approval_recommendation |-> None,
     breaking_changes |-> FALSE,
     files_changed |-> <<>>,
     lines_added |-> 0,
     lines_removed |-> 0,
     completed_at |-> FALSE,
     error_message |-> NoError,
     error_details |-> NoError]

\* ReviewComment(review_session_id=..., file_path=..., ...): posted_to_github
\* takes its default
NewCommentRow(session_id, c) ==
    [review_session_id |-> session_id,
     file_path |-> c.path,
     start_line |-> c.start_line,
     end_line |-> c.end_line,
     severity |-> c.severity,
     category |-> c.category,
     comment |-> c.comment,
     posted_to_github |-> FALSE]

\* db_session.query(ReviewSession).filter(ReviewSession.id == id).first()
SessionFound(id) == id \in DOMAIN sessions

\* Fault variant: a retry takes the row of the previous attempt back to
\* in_progress instead of inserting
InsertSession_Reopen(rows) ==
    IF rows = <<>> THEN Append(rows, NewSessionRow)
    ELSE [rows EXCEPT ![Len(rows)].status = "in_progress"]

\* Fault variant: a retry inserts only when the table has no row yet
InsertSession_IfAbsent(rows) ==
    IF rows = <<>> THEN Append(rows, NewSessionRow) ELSE rows

\* the session insert of process_pr_review
InsertSession(rows) == Append(rows, NewSessionRow)

\* review_session.status = "completed"; completed_at = now
CompletedRow(row) == [row EXCEPT !.status = "completed", !.completed_at = TRUE]

\* Fault variant: the except block sets the status only
FailedRow_StatusOnly(row, e, req, retry_count) ==
    [row EXCEPT !.status = "failed"]

\* Fault variant: the except block records the error and leaves the status
FailedRow_KeepStatus(row, e, req, retry_count) ==
    [row EXCEPT !.error_message = e,
                !.error_details = [task_id |-> req.id,
                                   retry_count |-> retry_count,
                                   action |-> req.args.action,
                                   focus_area |-> req.args.focus_area]]

\* review_session.status = "failed"; error_message = str(e); error_details = {...}
FailedRow(row, e, req, retry_count) ==
    [row EXCEPT !.status = "failed",
                !.error_message = e,
                !.error_details = [task_id |-> req.id,
                                   retry_count |-> retry_count,
                                   action |-> req.args.action,
                                   focus_area |-> req.args.focus_area]]

\* Fault variant: the risk of the review is not stored with the other results
ResultRow_NoRisk(row, review, paths, files) ==
    [row EXCEPT !.approval_recommendation = review.approval_recommendation,
                !.breaking_changes = review.breaking_changes,
                !.files_changed = Some(paths),
                !.lines_added = SumSeq([i \in DOMAIN files |-> files[i].additions]),
                !.lines_removed = SumSeq([i \in DOMAIN files |-> files[i].deletions])]

\* the result fields _run_review_process writes on the session
ResultRow(row, review, paths, files) ==
    [row EXCEPT !.risk_level = review.risk,
                !.approval_recommendation = review.approval_recommendation,
                !.breaking_changes = review.breaking_changes,
                !.files_changed = Some(paths),
                !.lines_added = SumSeq([i \in DOMAIN files |-> files[i].additions]),
                !.lines_removed = SumSeq([i \in DOMAIN files |-> files[i].deletions])]

\* Fault variant: only the first comment of the review is added
CommentRows_FirstOnly(session_id, review) ==
    [i \in DOMAIN review.inline_comments \cap {1} |->
        NewCommentRow(session_id, review.inline_comments[i])]

\* the comment rows _run_review_process adds, in the order of inline_comments
CommentRows(session_id, review) ==
    [i \in DOMAIN review.inline_comments |-> NewCommentRow(session_id, review.inline_comments[i])]

\* ------------------------------------------------------------ retry policy
\* if self.request.retries < self.max_retries
ShouldRetry(retry_count) == retry_count < max_retries

\* Fault variant: a countdown that grows by the base delay per retry
RetryCountdown_Linear(retry_count) == retry_base_delay * (retry_count + 1)

\* countdown=60 * (2 ** self.request.retries)
RetryCountdown(retry_count) == retry_base_delay * Pow2(retry_count)

\* Fault variant: the last attempt swallows the exception and returns
TaskOutcome_Swallow(retry_count) == IF ShouldRetry(retry_count) THEN "retry" ELSE "success"

\* Fault variant: the except block never asks for a retry
TaskOutcome_GiveUp(retry_count) == "raised"

\* How the except block leaves the task: raise self.retry(...) or raise e
TaskOutcome(retry_count) == IF ShouldRetry(retry_count) THEN "retry" ELSE "raised"

\* ------------------------------------------------------- posting to GitHub
\* Fault variant: one review per comment, the comments are not grouped by file
FilesInOrder_PerComment(cs) == [i \in DOMAIN cs |-> cs[i].path]

\* comments_by_file.keys(): the paths in the order of their first comment
RECURSIVE FilesInOrder(_)
FilesInOrder(cs) ==
    IF cs = <<>> THEN <<>>
    ELSE LET rest == FilesInOrder(SubSeq(cs, 1, Len(cs) - 1))
             path == cs[Len(cs)].path
         IN  IF path \in Range(rest) THEN rest ELSE Append(rest, path)

\* comments_by_file[file_path]
CommentsOfFile(cs, path) == SelectSeq(cs, LAMBDA c : c.path = path)

\* Fault variant: the filter does not name the session
MatchingRows_AnySession(table, session_id, c) ==
    { i \in DOMAIN table :
        /\ table[i].file_path = c.path
        /\ table[i].start_line = c.start_line
        /\ table[i].comment = c.comment }

\* the rows the filter of _post_comments_to_github matches for one comment
MatchingRows(table, session_id, c) ==
    { i \in DOMAIN table :
        /\ table[i].review_session_id = session_id
        /\ table[i].file_path = c.path
        /\ table[i].start_line = c.start_line
        /\ table[i].comment = c.comment }

\* Fault variant: a Medium risk fails the check as a High risk does
CheckConclusion_MediumFails(risk) ==
    IF risk \in {"High", "Medium"} THEN "failure" ELSE "success"

\* _create_check_run: the conclusion
CheckConclusion(risk) ==
    IF risk = "High" THEN "failure"
    ELSE IF risk = "Medium" THEN "neutral"
    ELSE "success"

\* ---------------------------------------------------- GitHub client (calls)
\* The status codes GitHub answers with, per kind of request
GetAnswers == {HTTP_OK, 500}
PostAnswers == {HTTP_CREATED, 500}

\* One operation of GitHubService: resolve the token, issue the request, test
\* the status against the codes the operation accepts
ClientCall(cache, t, resp, status_code, accepted, prefix) ==
    LET tk == get_installation_token(cache, InstallationId, t, resp)
    IN  [cache |-> tk.cache,
         error |-> IF tk.error # NoError THEN tk.error
                   ELSE IF status_code \notin accepted THEN Message(prefix, status_code)
                   ELSE NoError,
         rejected |-> IF tk.exchanged /\ resp.status_code # HTTP_CREATED THEN 1 ELSE 0]

DatabaseError == Message("database error", 0)

\* ------------------------------------------------------------------ actions
\* process_pr_review, lines 98-112: the session row is inserted and committed
CreateSession ==
    /\ UNCHANGED <<client_vars, call_vars>>
    /\ pc = "create_session"
    /\ \E ok \in BOOLEAN :
         IF ok
         THEN /\ sessions' = InsertSession(sessions)
              /\ review_session_id' = Len(sessions')
              /\ trace' = Append(trace, "create_session")
              /\ pc' = StepAfter("create_session")
              /\ err' = err
         ELSE /\ pc' = "handler"
              /\ err' = DatabaseError
              /\ UNCHANGED <<sessions, review_session_id, trace>>
    /\ warnings' = warnings
    /\ rejections' = rejections
    /\ UNCHANGED <<comments, _installation_tokens, now, request, pull, granted, retries, locals,
                   github, scheduled, calls>>

\* A GitHubService operation whose result the pipeline does not keep in the model
ClientStep(here, prefix, answers, accepted) ==
    /\ pc = here
    /\ \E resp \in TokenResponses(granted), status_code \in answers :
         LET r == ClientCall(_installation_tokens, now, resp, status_code, accepted, prefix)
         IN  /\ _installation_tokens' = r.cache
             /\ rejections' = rejections + r.rejected
             /\ IF r.error = NoError
                THEN /\ pc' = StepAfter(here)
                     /\ trace' = Append(trace, here)
                     /\ err' = err
                ELSE /\ pc' = "handler"
                     /\ err' = r.error
                     /\ trace' = trace
    /\ calls' = calls + 1

\* _run_review_process, line 199
GetPullRequest ==
    /\ UNCHANGED <<client_vars, call_vars>>
    /\ ClientStep("get_pull_request", "Failed to get pull request", GetAnswers,
                  {HTTP_OK})
    /\ warnings' = warnings
    /\ UNCHANGED <<db, now, request, pull, granted, retries, review_session_id, locals, github,
                   scheduled>>

\* _run_review_process, line 200
GetPullRequestDiff ==
    /\ UNCHANGED <<client_vars, call_vars>>
    /\ ClientStep("get_pull_request_diff", "Failed to get pull request diff", GetAnswers,
                  {HTTP_OK})
    /\ warnings' = warnings
    /\ UNCHANGED <<db, now, request, pull, granted, retries, review_session_id, locals, github,
                   scheduled>>

\* _run_review_process, line 201
GetPullRequestFiles ==
    /\ UNCHANGED <<client_vars, call_vars>>
    /\ ClientStep("get_pull_request_files", "Failed to get pull request files", GetAnswers,
                  {HTTP_OK})
    /\ pr_files' = IF pc' = "handler" THEN pr_files ELSE pull.files
    /\ warnings' = warnings
    /\ UNCHANGED <<db, now, request, pull, granted, retries, review_session_id, file_queue, file_paths,
                   file_contents, review_data, post_queue, github, scheduled>>

\* _run_review_process, lines 204-211: the languages, then the files to fetch
GetRepositoryLanguages ==
    /\ UNCHANGED <<client_vars, call_vars>>
    /\ ClientStep("get_repository_languages", "Failed to get repository languages", GetAnswers,
                  {HTTP_OK})
    /\ file_queue' = IF pc' = "handler" THEN file_queue
                     ELSE SelectSeq(pr_files, LAMBDA f : f.status \in {"added", "modified"})
    /\ warnings' = warnings
    /\ UNCHANGED <<db, now, request, pull, granted, retries, review_session_id, pr_files, file_paths,
                   file_contents, review_data, post_queue, github, scheduled>>

\* Fault variant: an error of get_file_content leaves the loop and the attempt
AfterFetch_Raises(error) == IF error = NoError THEN "get_file_content" ELSE "handler"

\* _run_review_process, lines 216-227: the try around get_file_content catches
\* every Exception, so the loop goes on whatever the call did
AfterFetch(error) == "get_file_content"

\* _run_review_process, lines 210-227: one round of the loop; an error of
\* get_file_content is caught and logged
GetFileContent ==
    /\ UNCHANGED <<client_vars, call_vars>>
    /\ pc = "get_file_content"
    /\ file_queue # <<>>
    /\ \E resp \in TokenResponses(granted), status_code \in GetAnswers :
         LET path == Head(file_queue).filename
             r == ClientCall(_installation_tokens, now, resp, status_code, {HTTP_OK},
                             "Failed to get file content")
         IN  /\ _installation_tokens' = r.cache
             /\ rejections' = rejections + r.rejected
             /\ file_paths' = Append(file_paths, path)
             /\ pc' = AfterFetch(r.error)
             /\ IF r.error = NoError
                THEN /\ file_contents' = file_contents \cup {path}
                     /\ warnings' = warnings
                ELSE /\ file_contents' = file_contents
                     /\ warnings' = warnings \cup {r.error}
    /\ file_queue' = Tail(file_queue)
    /\ calls' = calls + 1
    /\ UNCHANGED <<db, now, request, pull, granted, retries, review_session_id, err, pr_files,
                   review_data, post_queue, github, scheduled, trace>>

\* _run_review_process, lines 229-238: analyze_files reads the contents, which
\* nothing reads afterwards
AnalyzeFiles ==
    /\ UNCHANGED <<client_vars, call_vars>>
    /\ pc = "get_file_content"
    /\ file_queue = <<>>
    /\ pc' = StepAfter("get_file_content")
    /\ trace' = Append(trace, "analyze_files")
    /\ calls' = IF file_contents = {} THEN calls ELSE calls + 1
    /\ file_contents' = {}
    /\ warnings' = warnings
    /\ rejections' = rejections
    /\ UNCHANGED <<db, _installation_tokens, now, request, pull, granted, retries, review_session_id,
                   err, pr_files, file_queue, file_paths, review_data, post_queue, github,
                   scheduled>>

\* _run_review_process, lines 241-247: the model call, validation and the cap
ReviewCodeChangesBatch ==
    /\ UNCHANGED <<client_vars, call_vars>>
    /\ pc = "review_code_changes_batch"
    /\ \/ /\ pc' = "handler"
          /\ err' = Message("Empty response from AI model", 0)
          /\ UNCHANGED <<review_data, trace>>
       \/ LET r == pull.answer IN
            IF ValidationError(r) # NoError
            THEN /\ pc' = "handler"
                 /\ err' = ValidationError(r)
                 /\ UNCHANGED <<review_data, trace>>
            ELSE /\ review_data' = CapComments(r, max_comments_per_pr)
                 /\ pc' = StepAfter("review_code_changes_batch")
                 /\ trace' = Append(trace, "review_code_changes_batch")
                 /\ err' = err
    /\ calls' = calls + 1
    /\ warnings' = warnings
    /\ rejections' = rejections
    /\ UNCHANGED <<db, _installation_tokens, now, request, pull, granted, retries, review_session_id,
                   pr_files, file_queue, file_paths, file_contents, post_queue, github,
                   scheduled>>

\* _run_review_process, lines 249-281: the result fields and the comment rows,
\* one transaction; then _post_comments_to_github groups the comments by file
SaveComments ==
    /\ UNCHANGED <<client_vars, call_vars>>
    /\ pc = "save_comments"
    /\ \E ok \in BOOLEAN :
         IF ok
         THEN /\ IF SessionFound(review_session_id)
                 THEN /\ sessions' = [sessions EXCEPT ![review_session_id] =
                                         ResultRow(@, review_data, file_paths, pr_files)]
                      /\ comments' = comments \o CommentRows(review_session_id, review_data)
                 ELSE UNCHANGED db
              /\ post_queue' = FilesInOrder(review_data.inline_comments)
              /\ trace' = Append(trace, "save_comments")
              /\ pc' = StepAfter("save_comments")
              /\ err' = err
         ELSE /\ pc' = "handler"
              /\ err' = DatabaseError
              /\ UNCHANGED <<db, post_queue, trace>>
    /\ warnings' = warnings
    /\ rejections' = rejections
    /\ UNCHANGED <<_installation_tokens, now, request, pull, granted, retries, review_session_id,
                   pr_files, file_queue, file_paths, file_contents, review_data,
                   github, scheduled, calls>>

\* _post_comments_to_github, lines 354-378: the review of one file is posted
PostFileReview ==
    /\ UNCHANGED <<client_vars, call_vars>>
    /\ pc = "post_review_comment"
    /\ post_queue # <<>>
    /\ \E resp \in TokenResponses(granted), status_code \in PostAnswers :
         LET path == Head(post_queue)
             r == ClientCall(_installation_tokens, now, resp, status_code,
                             {HTTP_OK, HTTP_CREATED}, "Failed to post review comment")
         IN  /\ _installation_tokens' = r.cache
             /\ rejections' = rejections + r.rejected
             /\ IF r.error = NoError
                THEN /\ posts' = Append(posts,
                            [session |-> review_session_id, path |-> path,
                             comments |-> Len(CommentsOfFile(review_data.inline_comments, path)),
                             batch |-> CommentsOfFile(review_data.inline_comments, path)])
                     /\ pc' = "update_posted"
                     /\ trace' = Append(trace, "post_review_comment")
                     /\ err' = err
                ELSE /\ pc' = "handler"
                     /\ err' = r.error
                     /\ UNCHANGED <<posts, trace>>
    /\ calls' = calls + 1
    /\ warnings' = warnings
    /\ UNCHANGED <<db, now, request, pull, granted, retries, review_session_id, locals, check_runs,
                   scheduled>>

\* query(ReviewComment).filter(...).first() for one comment of the batch: the
\* filter has no ORDER BY; the rows it matches agree on every column it reads,
\* and the same query in the same transaction returns the same row, taken here
\* to be the one with the lowest id.  0 stands for None
FirstMatchingRow(table, session_id, c) ==
    LET rows == MatchingRows(table, session_id, c)
    IN  IF rows = {} THEN 0 ELSE CHOOSE i \in rows : \A j \in rows : i <= j

\* Fault variant: a round marks every row of the session
MarkedRows_AllOfSession(table, session_id, batch) ==
    {i \in DOMAIN table : table[i].review_session_id = session_id}

\* The rows one round of lines 380-396 marks
MarkedRows(table, session_id, batch) ==
    {FirstMatchingRow(table, session_id, batch[i]) : i \in DOMAIN batch} \ {0}

\* comment.posted_to_github = True (with the ids and posted_at)
PostedRow(row) == [row EXCEPT !.posted_to_github = TRUE]

\* _post_comments_to_github, lines 380-396: the rows of the posted batch are
\* marked, one transaction
UpdatePosted ==
    /\ UNCHANGED <<client_vars, call_vars>>
    /\ pc = "update_posted"
    /\ \E ok \in BOOLEAN :
         IF ok
         THEN LET batch == CommentsOfFile(review_data.inline_comments, Head(post_queue))
              IN  /\ comments' = [i \in DOMAIN comments |->
                                    IF i \in MarkedRows(comments, review_session_id, batch)
                                    THEN PostedRow(comments[i])
                                    ELSE comments[i]]
                  /\ post_queue' = Tail(post_queue)
                  /\ trace' = Append(trace, "update_posted")
                  /\ pc' = "post_review_comment"
                  /\ err' = err
         ELSE /\ pc' = "handler"
              /\ err' = DatabaseError
              /\ UNCHANGED <<comments, post_queue, trace>>
    /\ warnings' = warnings
    /\ rejections' = rejections
    /\ UNCHANGED <<sessions, _installation_tokens, now, request, pull, granted, retries, review_session_id,
                   pr_files, file_queue, file_paths, file_contents, review_data,
                   github, scheduled, calls>>

\* _post_comments_to_github, lines 398-404: the summary review
PostSummary ==
    /\ UNCHANGED <<client_vars, call_vars>>
    /\ pc = "post_review_comment"
    /\ post_queue = <<>>
    /\ \E resp \in TokenResponses(granted), status_code \in PostAnswers :
         LET r == ClientCall(_installation_tokens, now, resp, status_code,
                             {HTTP_OK, HTTP_CREATED}, "Failed to post review comment")
         IN  /\ _installation_tokens' = r.cache
             /\ rejections' = rejections + r.rejected
             /\ IF r.error = NoError
                THEN /\ posts' = Append(posts,
                            [session |-> review_session_id, path |-> "summary", comments |-> 0,
                             batch |-> <<>>])
                     /\ pc' = StepAfter("post_review_comment")
                     /\ trace' = Append(trace, "post_summary")
                     /\ err' = err
                ELSE /\ pc' = "handler"
                     /\ err' = r.error
                     /\ UNCHANGED <<posts, trace>>
    /\ calls' = calls + 1
    /\ warnings' = warnings
    /\ UNCHANGED <<db, now, request, pull, granted, retries, review_session_id, locals, check_runs,
                   scheduled>>

\* _create_check_run, lines 413-443
CreateCheckRun ==
    /\ UNCHANGED <<client_vars, call_vars>>
    /\ pc = "create_check_run"
    /\ \E resp \in TokenResponses(granted), status_code \in PostAnswers :
         LET r == ClientCall(_installation_tokens, now, resp, status_code,
                             {HTTP_OK, HTTP_CREATED}, "Failed to create check run")
         IN  /\ _installation_tokens' = r.cache
             /\ rejections' = rejections + r.rejected
             /\ IF r.error = NoError
                THEN /\ check_runs' = Append(check_runs,
                            [session |-> review_session_id,
                             conclusion |-> CheckConclusion(review_data.risk)])
                     /\ pc' = StepAfter("create_check_run")
                     /\ trace' = Append(trace, "create_check_run")
                     /\ err' = err
                ELSE /\ pc' = "handler"
                     /\ err' = r.error
                     /\ UNCHANGED <<check_runs, trace>>
    /\ calls' = calls + 1
    /\ warnings' = warnings
    /\ UNCHANGED <<db, now, request, pull, granted, retries, review_session_id, locals, posts,
                   scheduled>>

\* process_pr_review, lines 125-148: the session is marked completed and the
\* task returns success
MarkCompleted ==
    /\ UNCHANGED <<client_vars, call_vars>>
    /\ pc = "mark_completed"
    /\ \E ok \in BOOLEAN :
         IF ok
         THEN /\ sessions' = IF SessionFound(review_session_id)
                             THEN [sessions EXCEPT ![review_session_id] = CompletedRow(@)]
                             ELSE sessions
              /\ trace' = Append(trace, "mark_completed")
              /\ pc' = StepAfter("mark_completed")
              /\ err' = err
         ELSE /\ pc' = "handler"
              /\ err' = DatabaseError
              /\ UNCHANGED <<sessions, trace>>
    /\ warnings' = warnings
    /\ rejections' = rejections
    /\ UNCHANGED <<comments, _installation_tokens, now, request, pull, granted, retries, review_session_id,
                   locals, github, scheduled, calls>>

\* process_pr_review, lines 150-190: the except block
HandleFailure ==
    /\ UNCHANGED <<client_vars, call_vars>>
    /\ pc = "handler"
    /\ sessions' = IF review_session_id # NoSessionId /\ SessionFound(review_session_id)
                   THEN [sessions EXCEPT ![review_session_id] = FailedRow(@, err, request, retries)]
                   ELSE sessions
    /\ pc' = TaskOutcome(retries)
    /\ scheduled' = IF pc' = "retry"
                    THEN Append(scheduled, RetryCountdown(retries))
                    ELSE scheduled
    /\ warnings' = warnings
    /\ rejections' = rejections
    /\ UNCHANGED <<comments, _installation_tokens, now, request, pull, granted, retries, review_session_id,
                   err, locals, github, trace, calls>>

\* The queue delivers the retry: the task body runs again from its first line
\* with self.request.retries one higher
RetryDelivery ==
    /\ UNCHANGED <<client_vars, call_vars>>
    /\ pc = "retry"
    /\ retries' = retries + 1
    /\ pc' = "create_session"
    /\ review_session_id' = NoSessionId
    /\ err' = NoError
    /\ pr_files' = <<>>
    /\ file_queue' = <<>>
    /\ file_paths' = <<>>
    /\ file_contents' = {}
    /\ review_data' = NoReview
    /\ post_queue' = <<>>
    /\ trace' = <<>>
    /\ calls' = 0
    /\ warnings' = {}
    /\ rejections' = 0
    /\ UNCHANGED <<db, _installation_tokens, now, request, pull, granted, github, scheduled>>

\* Time passes while the task waits in the queue for its retry
Tick ==
    /\ UNCHANGED <<client_vars, call_vars>>
    /\ pc = "retry"
    /\ now < MaxClock
    /\ now' = now + 1
    /\ UNCHANGED <<db, _installation_tokens, request, pull, granted, retries, pc, review_session_id,
                   err, locals, github, scheduled, trace, calls, warnings, rejections>>

Next ==
    \/ CreateSession
    \/ GetPullRequest
    \/ GetPullRequestDiff
    \/ GetPullRequestFiles
    \/ GetRepositoryLanguages
    \/ GetFileContent
    \/ AnalyzeFiles
    \/ ReviewCodeChangesBatch
    \/ SaveComments
    \/ PostFileReview
    \/ UpdatePosted
    \/ PostSummary
    \/ CreateCheckRun
    \/ MarkCompleted
    \/ HandleFailure
    \/ RetryDelivery
    \/ Tick

Spec == Init /\ [][Next]_vars

\* =============================================================== properties
\* The session row of the current attempt
CurrentSession == sessions[review_session_id]

\* The task has left the attempt: it returned, asked for a retry, or raised
AttemptOver == pc \in {"success", "retry", "raised"}

\* The exception _get_installation_token raises on a 401
TokenError == Message("Failed to get installation token", 401)

\* The countdowns of the first, second and third retry
Backoff == <<60, 120, 240>>

\* C1 -- The status of a session row only moves pending -> in_progress ->
\* completed or pending -> in_progress -> failed: no step of any attempt makes
\* another change of status, no row in completed or failed is changed back, no
\* row disappears, and a new row starts in pending or in_progress.
C1_StatusTransitions ==
    [][ /\ Len(sessions') >= Len(sessions)
        /\ \A i \in DOMAIN sessions :
             \/ sessions'[i].status = sessions[i].status
             \/ <<sessions[i].status, sessions'[i].status>> \in
                   { <<"pending", "in_progress">>,
                     <<"in_progress", "completed">>,
                     <<"in_progress", "failed">> }
        /\ \A i \in DOMAIN sessions' \ DOMAIN sessions :
             sessions'[i].status \in {"pending", "in_progress"} ]_vars

\* C1, its case: the row of a failed attempt next to the row of the retry that
\* completed
C1_Witness ==
    \E i, j \in DOMAIN sessions :
        /\ i < j
        /\ sessions[i].status = "failed"
        /\ sessions[j].status = "completed"

\* C2 as stated -- every attempt of the task revises one and the same row: the
\* table never holds more than one row for the task.
C2_OneRowForTheTask == Len(sessions) <= 1

\* C2 -- Every attempt whose session insert succeeds adds one row of its own,
\* the newest of the table, and that row is the one the attempt works on; a row
\* of an earlier attempt is never changed again; with retry counter n the table
\* holds at most n + 1 rows of the task.
C2_RowPerAttempt ==
    /\ [](Len(sessions) <= retries + 1)
    /\ [](review_session_id # NoSessionId => review_session_id = Len(sessions))
    /\ [][ /\ (review_session_id = NoSessionId /\ review_session_id' # NoSessionId)
                => /\ Len(sessions') = Len(sessions) + 1
                   /\ review_session_id' = Len(sessions')
                   /\ sessions'[review_session_id'].status = "in_progress"
           /\ \A i \in DOMAIN sessions :
                i # review_session_id => (i \in DOMAIN sessions' /\ sessions'[i] = sessions[i]) ]_vars

\* C2, its case: the third attempt has inserted the third row
C2_Witness ==
    /\ retries = 2
    /\ Len(sessions) = 3
    /\ review_session_id = 3
    /\ sessions[1].status = "failed"
    /\ sessions[2].status = "failed"

\* The steps C3 names, as the attempt records them
KeySteps ==
    << "get_pull_request_diff", "analyze_files", "review_code_changes_batch",
       "save_comments", "post_summary", "create_check_run", "mark_completed" >>

Position(step) == CHOOSE k \in DOMAIN trace : trace[k] = step

\* C3 -- A completed session is the session of the current attempt, and that
\* attempt fetched the diff, ran the analysis, obtained the validated review,
\* persisted the comments, posted them (every per-file review after the
\* persistence and before the summary) and created the check run, each once and
\* in this order, before it marked the session completed.
C3_CompletedInOrder ==
    \A i \in DOMAIN sessions :
        sessions[i].status = "completed" =>
            /\ i = review_session_id
            /\ SelectSeq(trace, LAMBDA e : e \in Range(KeySteps)) = KeySteps
            /\ \A k \in DOMAIN trace :
                 trace[k] \in {"post_review_comment", "update_posted"} =>
                     /\ Position("save_comments") < k
                     /\ k < Position("post_summary")
            /\ Len(SelectSeq(comments, LAMBDA r : r.review_session_id = i))
                  = Len(review_data.inline_comments)
            /\ \E k \in DOMAIN posts : posts[k].session = i /\ posts[k].path = "summary"
            /\ \E k \in DOMAIN check_runs : check_runs[k].session = i

\* C3, its case: a session completed after per-file reviews were posted
C3_Witness ==
    /\ pc = "success"
    /\ sessions[review_session_id].status = "completed"
    /\ "post_review_comment" \in Range(trace)

\* C4 -- Whenever an attempt issues an external call (a GitHub request with its
\* token exchange, an analyzer run, the model call), the row of that attempt is
\* committed with status in_progress, by that attempt.
C4_SessionBeforeCalls ==
    [][ calls' > calls =>
           /\ review_session_id \in DOMAIN sessions
           /\ sessions[review_session_id].status = "in_progress"
           /\ trace # <<>>
           /\ trace[1] = "create_session" ]_vars

\* C4, its case: a retry has issued its first external call
C4_Witness ==
    /\ retries = 1
    /\ calls = 1
    /\ pc = "get_pull_request_diff"

RaisedBy(step) ==
    CASE step = "create_session" -> {DatabaseError}
      [] step = "get_pull_request" -> {TokenError, Message("Failed to get pull request", 500)}
      [] step = "get_pull_request_diff" -> {TokenError, Message("Failed to get pull request diff", 500)}
      [] step = "get_pull_request_files" -> {TokenError, Message("Failed to get pull request files", 500)}
      [] step = "get_repository_languages" -> {TokenError, Message("Failed to get repository languages", 500)}
      [] step = "get_file_content" -> {}
      [] step = "review_code_changes_batch" ->
            {Message("Empty response from AI model", 0), ValidationError(pull.answer)}
      [] step = "save_comments" -> {DatabaseError}
      [] step = "post_review_comment" -> {TokenError, Message("Failed to post review comment", 500)}
      [] step = "update_posted" -> {DatabaseError}
      [] step = "create_check_run" -> {TokenError, Message("Failed to create check run", 500)}
      [] step = "mark_completed" -> {DatabaseError}
      [] OTHER -> {}

RowsOfSession(session_id) ==
    SelectSeq(comments, LAMBDA r : r.review_session_id = session_id)

\* C9 -- Every comment row belongs to a session row that exists and is past
\* pending; when comment rows appear, the row of their session was committed
\* before, in_progress; and when an attempt issues a review post, the table
\* holds one row of its session for each inline comment of the review, in order.
C9_CausalOrder ==
    /\ [](\A k \in DOMAIN comments :
              /\ comments[k].review_session_id \in DOMAIN sessions
              /\ sessions[comments[k].review_session_id].status
                    \in {"in_progress", "completed", "failed"})
    /\ [][ \A k \in DOMAIN comments' \ DOMAIN comments :
              /\ comments'[k].review_session_id \in DOMAIN sessions
              /\ sessions[comments'[k].review_session_id].status = "in_progress" ]_vars
    /\ [][ (pc = "post_review_comment" /\ calls' > calls) =>
              LET rows == RowsOfSession(review_session_id)
                  cs == review_data.inline_comments
              IN  /\ "save_comments" \in Range(trace)
                  /\ Len(rows) = Len(cs)
                  /\ \A k \in DOMAIN cs :
                       /\ rows[k].file_path = cs[k].path
                       /\ rows[k].start_line = cs[k].start_line
                       /\ rows[k].comment = cs[k].comment ]_vars

\* C9, its case: the review of a file was posted with its rows in the table
C9_Witness ==
    /\ pc = "update_posted"
    /\ Len(RowsOfSession(review_session_id)) = 2
    /\ posts # <<>>

\* C10 -- A row has posted_to_github only if GitHub accepted a review of its
\* session for its file; a row changes only by having the flag set, and never
\* again afterwards; when the post of a file's review fails, no row changes and
\* no row of that file and session has the flag.
C10_PostedFlag ==
    /\ [](\A k \in DOMAIN comments :
              comments[k].posted_to_github =>
                  \E j \in DOMAIN posts :
                      /\ posts[j].session = comments[k].review_session_id
                      /\ posts[j].path = comments[k].file_path)
    /\ [][ \A k \in DOMAIN comments :
              /\ k \in DOMAIN comments'
              /\ comments[k].posted_to_github => comments'[k] = comments[k]
              /\ comments'[k] # comments[k] =>
                    comments'[k] = [comments[k] EXCEPT !.posted_to_github = TRUE] ]_vars
    /\ [][ (pc = "post_review_comment" /\ post_queue # <<>> /\ pc' = "handler") =>
              /\ comments' = comments
              /\ \A k \in DOMAIN comments' :
                   (/\ comments'[k].review_session_id = review_session_id
                    /\ comments'[k].file_path = Head(post_queue))
                      => ~comments'[k].posted_to_github ]_vars

\* C10, its case: the review of the first file was posted and its row marked,
\* the post of the second file failed and its row is not marked
C10_Witness ==
    /\ pc = "retry"
    /\ \E k, l \in DOMAIN comments :
          /\ comments[k].review_session_id = review_session_id
          /\ comments[l].review_session_id = review_session_id
          /\ comments[k].posted_to_github
          /\ ~comments[l].posted_to_github

\* The review an attempt of the task persists: the answer of the model, capped
PersistedReview == CapComments(pull.answer, max_comments_per_pr)

\* The result fields of a session row are set
ResultsSet(row) ==
    /\ row.risk_level # None
    /\ row.approval_recommendation # None
    /\ row.files_changed # <<>>

\* None of the result fields of a session row is set
ResultsUnset(row) ==
    /\ row.risk_level = None
    /\ row.approval_recommendation = None
    /\ row.files_changed = <<>>
    /\ row.lines_added = 0
    /\ row.lines_removed = 0

\* C11 -- The result fields of a session and the comment rows of its review
\* are written together: in every state a session has either no result field
\* and no comment row, or all result fields and one comment row for each inline
\* comment of the review; and a step that changes the one changes the other.
C11_ResultsWithComments ==
    /\ [](\A i \in DOMAIN sessions :
             LET rows == RowsOfSession(i)
                 cs == PersistedReview.inline_comments
             IN  \/ /\ ResultsUnset(sessions[i])
                    /\ rows = <<>>
                 \/ /\ ResultsSet(sessions[i])
                    /\ Len(rows) = Len(cs)
                    /\ \A k \in DOMAIN cs :
                         /\ rows[k].file_path = cs[k].path
                         /\ rows[k].start_line = cs[k].start_line
                         /\ rows[k].severity = cs[k].severity
                         /\ rows[k].comment = cs[k].comment)
    /\ [][ \A i \in DOMAIN sessions :
             (ResultsSet(sessions'[i]) # ResultsSet(sessions[i]))
                 => (Len(comments') = Len(comments) + Len(PersistedReview.inline_comments)
                     /\ pc = "save_comments") ]_vars

\* C11, its case: the results and both comment rows of a review are in the
\* table and nothing has been posted for the session
C11_Witness ==
    /\ pc = "post_review_comment"
    /\ sessions[review_session_id].risk_level = "High"
    /\ Len(RowsOfSession(review_session_id)) = 2
    /\ \A k \in DOMAIN posts : posts[k].session # review_session_id

\* The accepted reviews of one file for one session
PostsOf(session_id, path) ==
    {k \in DOMAIN posts : posts[k].session = session_id /\ posts[k].path = path}

\* C12 -- Delivery is at least once: an attempt posts the review of a file at
\* most once, and an attempt that reached the summary has posted every file of
\* the review itself, whatever earlier attempts had posted; nothing bounds the
\* posts of a file over the attempts of a task but their number.
C12_AtLeastOnce ==
    /\ \A j, k \in DOMAIN posts :
          (posts[j].session = posts[k].session /\ posts[j].path = posts[k].path)
              => j = k
    /\ \A i \in DOMAIN sessions :
          PostsOf(i, "summary") # {} =>
              \A c \in Range(PersistedReview.inline_comments) : PostsOf(i, c.path) # {}
    /\ \A k \in DOMAIN posts : posts[k].session \in DOMAIN sessions

\* C12, its case: the review of a.py was accepted in the first attempt, the
\* post of b.py failed, and the retry had the review of a.py accepted again
C12_Witness ==
    /\ retries = 1
    /\ Len(sessions) = 2
    /\ sessions[1].status = "failed"
    /\ sessions[1].error_message = Message("Failed to post review comment", 500)
    /\ PostsOf(1, "a.py") # {}
    /\ PostsOf(1, "b.py") = {}
    /\ PostsOf(2, "a.py") # {}

\* C13 as stated -- a session that is not completed has no risk_level.
C13_RiskOnlyWhenCompleted ==
    \A i \in DOMAIN sessions :
        sessions[i].status # "completed" => sessions[i].risk_level = None

\* C13 -- risk_level is written with the results of the review, before the
\* posting: only the step that persists the results sets it, on the in_progress
\* row of the attempt, to the risk of the review, and it never changes
\* afterwards; a session in_progress or failed has one exactly if its attempt
\* got as far as persisting the results, and every completed session has one.
C13_RiskWithResults ==
    /\ [](\A i \in DOMAIN sessions :
             /\ sessions[i].risk_level \in {None, PersistedReview.risk}
             /\ sessions[i].status = "completed" => sessions[i].risk_level \in RiskLevels
             /\ sessions[i].risk_level # None => ResultsSet(sessions[i]))
    /\ [](review_session_id # NoSessionId =>
             (CurrentSession.risk_level # None <=> "save_comments" \in Range(trace)))
    /\ [][ \A i \in DOMAIN sessions :
             sessions'[i].risk_level # sessions[i].risk_level =>
                 /\ pc = "save_comments"
                 /\ i = review_session_id
                 /\ sessions[i].status = "in_progress"
                 /\ sessions[i].risk_level = None ]_vars

\* C13, its case: a session failed after its results were persisted
C13_Witness ==
    \E i \in DOMAIN sessions :
        /\ sessions[i].status = "failed"
        /\ sessions[i].risk_level = "Medium"

\* C14 -- A session that is pending, in_progress or completed has neither
\* error_message nor error_details; a failed session has both.
C14_ErrorOnlyWhenFailed ==
    \A i \in DOMAIN sessions :
        IF sessions[i].status = "failed"
        THEN sessions[i].error_message # NoError /\ sessions[i].error_details # NoError
        ELSE sessions[i].error_message = NoError /\ sessions[i].error_details = NoError

\* C14, its case: the row of a failed attempt carries the error, the row of
\* the retry in progress carries none
C14_Witness ==
    /\ pc = "save_comments"
    /\ review_session_id = 2
    /\ sessions[1].status = "failed"
    /\ sessions[1].error_details # NoError
    /\ sessions[2].error_message = NoError

\* ================================================= the GitHub client alone
\* Concurrent reviews call operations of the one GitHubService of the process
\* (review_task.py, line 58).  An operation resolves the token, which suspends
\* the caller while the exchange is in flight, then issues its HTTP request.
MaxTime == 2

Callers == {"r1", "r2"}

\* The lifetimes the token endpoint grants
Lifetimes == {ShortLived, LongLived}

\* The answers to the HTTP request of an operation; 0 is no answer (a network
\* error or a timeout, which httpx raises)
ApiAnswers == {HTTP_OK, 500, 0}

NoToken == <<>>

\* The token the endpoint issues at time t for an installation, named by what
\* the endpoint decided
IssuedToken(installation_id, expires_in, t) ==
    [installation_id |-> installation_id, expires_in |-> expires_in, issued_at |-> t]

\* The answers of the token endpoint to an exchange posted at time t
ExchangeAnswers(installation_id, t) ==
    { [status_code |-> HTTP_CREATED, token |-> IssuedToken(installation_id, e, t),
       expires_in |-> e] : e \in Lifetimes }
    \cup { [status_code |-> 401, token |-> NoToken, expires_in |-> 0] }

\* A caller outside any operation, with how its last operation ended and the
\* number of HTTP requests that operation issued
Idle(outcome, sent) ==
    [pc |-> "idle", installation_id |-> None, token |-> NoToken,
     response |-> NoError, exchanges |-> 0, sent |-> sent, outcome |-> outcome]

NoOutcome == <<"none">>

\* The task and its pipeline are not running
TaskOff ==
    /\ sessions = <<>>
    /\ comments = <<>>
    /\ request = None
    /\ pull = None
    /\ granted = 0
    /\ retries = 0
    /\ pc = "off"
    /\ review_session_id = NoSessionId
    /\ err = NoError
    /\ pr_files = <<>>
    /\ file_queue = <<>>
    /\ file_paths = <<>>
    /\ file_contents = {}
    /\ review_data = NoReview
    /\ post_queue = <<>>
    /\ posts = <<>>
    /\ check_runs = <<>>
    /\ scheduled = <<>>
    /\ trace = <<>>
    /\ calls = 0
    /\ warnings = {}
    /\ rejections = 0

ClientInit ==
    /\ TaskOff
    /\ _installation_tokens = [i \in InstallationIds |-> NoError]
    /\ now = 0
    /\ callers = [c \in Callers |-> Idle(NoOutcome, 0)]
    /\ arg = NotCalled
    /\ result = NotCalled
    /\ analysis = NotCalled
    /\ background_tasks = <<>>
    /\ job_queue = <<>>
    /\ workers = <<>>

\* Fault variant: an operation issues its request again when it failed
ClientOutcome_Retry(status_code, accepted) ==
    IF status_code \in accepted THEN "returned" ELSE "send"

\* lines 152-163 of get_pull_request, the same in every operation: the
\* operation returns the body, or raises
ClientOutcome(status_code, accepted) ==
    IF status_code \in accepted THEN "returned" ELSE "raised"

\* An operation is called: _get_installation_token tests the cache (lines
\* 69-72) and returns the cached token, or posts the exchange and waits
CallOperation ==
    /\ \E c \in Callers, installation_id \in InstallationIds :
         /\ callers[c].pc = "idle"
         /\ IF CacheHit(_installation_tokens, installation_id, now)
            THEN callers' = [callers EXCEPT ![c] =
                    [pc |-> "send", installation_id |-> installation_id,
                     token |-> _installation_tokens[installation_id].token,
                     response |-> NoError, exchanges |-> 0, sent |-> 0, outcome |-> NoOutcome]]
            ELSE \E resp \in ExchangeAnswers(installation_id, now) :
                    callers' = [callers EXCEPT ![c] =
                       [pc |-> "exchange", installation_id |-> installation_id,
                        token |-> NoToken, response |-> resp, exchanges |-> 1, sent |-> 0,
                        outcome |-> NoOutcome]]
    /\ UNCHANGED <<task_vars, _installation_tokens, now, call_vars>>

\* The answer of the exchange arrives: lines 88-106
ExchangeReturns ==
    /\ \E c \in Callers :
         /\ callers[c].pc = "exchange"
         /\ LET r == ExchangeResult(_installation_tokens, callers[c].installation_id, now,
                                    callers[c].response)
            IN  /\ _installation_tokens' = r.cache
                /\ callers' = [callers EXCEPT ![c] =
                      IF r.error = NoError
                      THEN [@ EXCEPT !.pc = "send", !.token = r.token, !.response = NoError]
                      ELSE Idle(<<"token_error", callers[c].response.status_code>>, 0)]
    /\ UNCHANGED <<task_vars, now, call_vars>>

\* The operation issues its HTTP request with the token and gets the answer
SendRequest ==
    /\ \E c \in Callers, status_code \in ApiAnswers :
         /\ callers[c].pc = "send"
         /\ LET outcome == ClientOutcome(status_code, {HTTP_OK})
            IN  callers' = [callers EXCEPT ![c] =
                   IF outcome \in {"returned", "raised"}
                   THEN Idle(<<outcome, status_code>>, callers[c].sent + 1)
                   ELSE [@ EXCEPT !.pc = outcome, !.sent = @ + 1]]
    /\ UNCHANGED <<task_vars, _installation_tokens, now, call_vars>>

\* Time passes; a request leaves as soon as its token is resolved
Elapse ==
    /\ now < MaxTime
    /\ \A c \in Callers : callers[c].pc # "send"
    /\ now' = now + 1
    /\ UNCHANGED <<task_vars, _installation_tokens, client_vars, call_vars>>

ClientNext ==
    \/ CallOperation
    \/ ExchangeReturns
    \/ SendRequest
    \/ Elapse

ClientSpec == ClientInit /\ [][ClientNext]_vars

\* ------------------------------------------------- properties of the client
Entry(installation_id) == _installation_tokens[installation_id]

\* The step in which caller c enters an operation for installation i
Enters(c, i) ==
    /\ callers[c].pc = "idle"
    /\ callers'[c].pc # "idle"
    /\ callers'[c].installation_id = i

\* The step in which the exchange of caller c is answered
Answered(c) ==
    /\ callers[c].pc = "exchange"
    /\ callers'[c].pc # "exchange"

\* C15 as stated -- a request leaves only with a token whose expiry reported by
\* the server, less the 60 seconds of margin, is still ahead.
C15_NeverWithinMargin ==
    \A c \in Callers :
        callers[c].pc = "send" =>
            now < callers[c].token.issued_at
                    + (callers[c].token.expires_in - token_safety_margin)

\* C15 -- The expiry cached with a token is the time its response was received
\* plus the granted lifetime less 60 seconds.  An operation takes the cached
\* token without an exchange only while the current time is before that cached
\* expiry; with no entry, or at or past the cached expiry, it posts an exchange
\* and issues no request until the exchange is answered.  A request therefore
\* leaves with a token obtained in the same operation, or with a cached token
\* whose lifetime exceeds the margin.
C15_CachedExpiry ==
    /\ [][\A c \in Callers, i \in InstallationIds :
            /\ (Enters(c, i) /\ callers'[c].pc = "send") =>
                  /\ Entry(i) # NoError
                  /\ now < Entry(i).expires_at
                  /\ callers'[c].token = Entry(i).token
                  /\ callers'[c].exchanges = 0
            /\ (Enters(c, i) /\ (Entry(i) = NoError \/ now >= Entry(i).expires_at)) =>
                  /\ callers'[c].pc = "exchange"
                  /\ callers'[c].exchanges = 1
            /\ (Answered(c) /\ callers'[c].pc = "send" /\ callers[c].installation_id = i) =>
                  /\ callers'[c].token = callers[c].response.token
                  /\ Entry(i)'.expires_at =
                        now + (callers[c].response.expires_in - token_safety_margin)]_vars
    /\ [](\A c \in Callers :
            /\ callers[c].pc = "exchange" =>
                  (callers[c].sent = 0 /\ callers[c].token = NoToken)
            /\ callers[c].pc = "send" =>
                  /\ callers[c].token # NoToken
                  /\ \/ callers[c].exchanges = 1
                     \/ callers[c].token.expires_in > token_safety_margin)

\* A cached token is taken one tick after it was issued, its response having
\* been received with that delay
C15_Witness ==
    \E c \in Callers :
        /\ callers[c].pc = "send"
        /\ callers[c].exchanges = 0
        /\ callers[c].token.issued_at + 1 = now
        /\ Entry(callers[c].installation_id).token = callers[c].token
        /\ Entry(callers[c].installation_id).expires_at = now + 1

\* C16 -- For one installation, an operation entered while the cached expiry is
\* ahead performs no exchange: it gets the cached token, which a single earlier
\* exchange produced, and leaves the cache as it is.  An operation entered at or
\* after the cached expiry posts a second exchange, and the answer of that
\* exchange replaces the entry by the new token and its expiry.
C16_OneExchangePerWindow ==
    /\ [][\A c \in Callers, i \in InstallationIds :
            /\ (Enters(c, i) /\ Entry(i) # NoError /\ now < Entry(i).expires_at) =>
                  /\ callers'[c].pc = "send"
                  /\ callers'[c].exchanges = 0
                  /\ callers'[c].token = Entry(i).token
                  /\ _installation_tokens' = _installation_tokens
            /\ (Enters(c, i) /\ Entry(i) # NoError /\ now >= Entry(i).expires_at) =>
                  /\ callers'[c].pc = "exchange"
                  /\ callers'[c].exchanges = 1
                  /\ callers'[c].response \in ExchangeAnswers(i, now)
            /\ (Answered(c) /\ callers[c].installation_id = i
                  /\ callers[c].response.status_code = HTTP_CREATED) =>
                  /\ Entry(i)'.token = callers[c].response.token
                  /\ callers'[c].token = callers[c].response.token]_vars
    /\ [](\A i \in InstallationIds :
            Entry(i) # NoError => Entry(i).token \in
                { IssuedToken(i, e, t) : e \in Lifetimes, t \in 0..now })

\* The entry of an installation holds a token issued after time 0, the answer
\* of a second exchange, and the other caller takes it from the cache while a
\* request of the caller that exchanged it is leaving
C16_Witness ==
    /\ Entry(InstallationId) # NoError
    /\ Entry(InstallationId).token.issued_at = MaxTime
    /\ callers["r1"].pc = "send"
    /\ callers["r1"].exchanges = 1
    /\ callers["r1"].installation_id = InstallationId
    /\ callers["r2"].pc = "send"
    /\ callers["r2"].exchanges = 0
    /\ callers["r2"].token = callers["r1"].token
    /\ callers["r2"].token = Entry(InstallationId).token

\* C17 -- Whatever the interleaving of the callers at the exchange, a request
\* leaves with a token the endpoint issued for the installation of the caller;
\* an entry of the cache holds a token issued for its installation together with
\* the expiry computed from the lifetime of that same token; the answer of an
\* exchange writes the entry of its installation whole, over whatever an earlier
\* answer wrote, and touches neither the other entries nor the other callers; a
\* refused exchange writes nothing.
C17_CacheConsistent ==
    /\ [](/\ \A c \in Callers :
               callers[c].pc = "send" =>
                   callers[c].token \in
                       { IssuedToken(callers[c].installation_id, e, t) :
                            e \in Lifetimes, t \in 0..now }
          /\ \A i \in InstallationIds :
               Entry(i) # NoError =>
                   /\ Entry(i).token \in
                         { IssuedToken(i, e, t) : e \in Lifetimes, t \in 0..now }
                   /\ Entry(i).expires_at
                         - (Entry(i).token.expires_in - token_safety_margin)
                            \in Entry(i).token.issued_at .. now)
    /\ [][\A c \in Callers :
            Answered(c) =>
               /\ \A d \in Callers \ {c} : callers'[d] = callers[d]
               /\ \A i \in InstallationIds \ {callers[c].installation_id} :
                     Entry(i)' = Entry(i)
               /\ IF callers[c].response.status_code = HTTP_CREATED
                  THEN /\ Entry(callers[c].installation_id)' =
                             [token |-> callers[c].response.token,
                              expires_at |-> now + (callers[c].response.token.expires_in
                                                     - token_safety_margin)]
                       /\ callers'[c].pc = "send"
                       /\ callers'[c].token = callers[c].response.token
                  ELSE /\ _installation_tokens' = _installation_tokens
                       /\ callers'[c].pc = "idle"
                       /\ Head(callers'[c].outcome) = "token_error"]_vars

\* Both callers exchanged for the same installation at once and got different
\* tokens; the entry holds the token of the answer that came last
C17_Witness ==
    /\ callers["r1"].pc = "send"
    /\ callers["r2"].pc = "send"
    /\ callers["r1"].installation_id = InstallationId
    /\ callers["r2"].installation_id = InstallationId
    /\ callers["r1"].exchanges = 1
    /\ callers["r2"].exchanges = 1
    /\ callers["r1"].token # callers["r2"].token
    /\ callers["r1"].token.issued_at = callers["r2"].token.issued_at
    /\ Entry(InstallationId).token = callers["r2"].token
    /\ now > callers["r1"].token.issued_at

\* C18 -- An operation issues its HTTP request at most once: a caller whose
\* request is about to leave has issued none in this operation, the step that
\* issues it ends the operation, and an operation that ended on the answer of
\* its request issued exactly one.  It ended by returning when the answer was
\* 200, and by raising when the answer was another status or no answer at all.
C18_NoRetryInClient ==
    /\ [](\A c \in Callers :
            /\ callers[c].sent <= 1
            /\ callers[c].exchanges <= 1
            /\ callers[c].pc \in {"exchange", "send"} => callers[c].sent = 0
            /\ callers[c].pc = "idle" =>
                  /\ Head(callers[c].outcome) \in {"none", "token_error"}
                        => callers[c].sent = 0
                  /\ Head(callers[c].outcome) \in {"returned", "raised"}
                        => /\ callers[c].sent = 1
                           /\ (Head(callers[c].outcome) = "returned"
                                 <=> callers[c].outcome[2] = HTTP_OK))
    /\ [][\A c \in Callers :
            (callers[c].pc = "send" /\ callers'[c] # callers[c]) =>
                /\ callers'[c].pc = "idle"
                /\ callers'[c].sent = 1
                /\ Head(callers'[c].outcome) \in {"returned", "raised"}]_vars

\* An operation raised on status 500 and another on no answer, one request each
C18_Witness ==
    /\ callers["r1"] = Idle(<<"raised", 500>>, 1)
    /\ callers["r2"] = Idle(<<"raised", 0>>, 1)
    /\ Entry(InstallationId) # NoError

\* ============================================ validation of the AI response
\* _validate_review_response applied to synthetic responses: a valid review,
\* and what becomes of it when one thing in it is changed.
MaxComments == 2

SeqsUpTo(S, n) == UNION {[1..k -> S] : k \in 0..n}

SampleComments ==
    {Comment("a.py", 1, s, "bug", "t") : s \in Severities}
        \cup {Comment("b.py", 2, "low", c, "t") : c \in Categories}

ValidReviews ==
    {Review(cs, risk, rec) : cs \in SeqsUpTo(SampleComments, MaxComments),
                             risk \in RiskLevels, rec \in Recommendations}

\* Values outside the closed set of a field
OutOfRange(field) ==
    CASE field = "severity" -> {"blocker", "High"}
      [] field = "category" -> {"misc"}
      [] field = "risk" -> {"low", "Critical"}
      [] field = "approval_recommendation" -> {"merge"}

Change(kind, index, field, value) ==
    [kind |-> kind, index |-> index, field |-> field, value |-> value]

\* The changes made to a valid review; index 0 is the review itself, index i
\* its i-th comment
Changes(base) ==
    {Change("none", 0, "", ""), Change("add", 0, "extra", "x"),
     Change("truncate", 0, "", ""), Change("not_a_list", 0, "inline_comments", "")}
    \cup {Change("remove", 0, f, "") : f \in required_fields}
    \cup {Change("remove", i, f, "") : i \in DOMAIN base.inline_comments, f \in comment_fields}
    \cup {Change("substitute", 0, f, v) :
             f \in {"risk"}, v \in OutOfRange("risk")}
    \cup {Change("substitute", 0, f, v) :
             f \in {"approval_recommendation"}, v \in OutOfRange("approval_recommendation")}
    \cup {Change("substitute", i, f, v) :
             i \in DOMAIN base.inline_comments, f \in {"severity"}, v \in OutOfRange("severity")}
    \cup {Change("substitute", i, f, v) :
             i \in DOMAIN base.inline_comments, f \in {"category"}, v \in OutOfRange("category")}

Without(rec, f) == [g \in DOMAIN rec \ {f} |-> rec[g]]

With(rec, f, v) == [g \in DOMAIN rec \cup {f} |-> IF g = f THEN v ELSE rec[g]]

Changed(base, ch) ==
    CASE ch.kind = "remove" /\ ch.index = 0 -> Without(base, ch.field)
      [] ch.kind = "remove" /\ ch.index > 0 ->
            [base EXCEPT !.inline_comments[ch.index] = Without(@, ch.field)]
      [] ch.kind = "substitute" /\ ch.index = 0 -> With(base, ch.field, ch.value)
      [] ch.kind = "substitute" /\ ch.index > 0 ->
            [base EXCEPT !.inline_comments[ch.index] = With(@, ch.field, ch.value)]
      [] ch.kind = "add" -> With(base, ch.field, ch.value)
      [] ch.kind = "not_a_list" ->
            [base EXCEPT !.inline_comments = [i \in {0} |-> Comment("a.py", 1, "low", "bug", "t")]]
      [] OTHER -> base

\* The text of a response: a JSON document with its value, or, truncated, no
\* JSON at all
ResponseText(base, ch) ==
    IF ch.kind = "truncate"
    THEN [json |-> FALSE, value |-> NoReview]
    ELSE [json |-> TRUE, value |-> Changed(base, ch)]

\* AIService._validate_review_response: json.loads, the tests, the return
validate_review_response(response) ==
    IF ~response.json
    THEN [value |-> NoReview, error |-> Message("Invalid JSON response", 0)]
    ELSE IF ValidationError(response.value) # NoError
    THEN [value |-> NoReview, error |-> ValidationError(response.value)]
    ELSE [value |-> response.value, error |-> NoError]

\* Neither the task nor the client is running
ServiceCallInit ==
    /\ TaskOff
    /\ _installation_tokens = [i \in InstallationIds |-> NoError]
    /\ now = 0
    /\ callers = <<>>
    /\ result = NotCalled
    /\ analysis = NotCalled
    /\ background_tasks = <<>>
    /\ job_queue = <<>>
    /\ workers = <<>>

ValidateInit ==
    /\ ServiceCallInit
    /\ \E base \in ValidReviews :
         \E ch \in Changes(base) :
            arg = [response |-> ResponseText(base, ch), base |-> base, change |-> ch]

Validate ==
    /\ result = NotCalled
    /\ result' = validate_review_response(arg.response)
    /\ UNCHANGED <<task_vars, _installation_tokens, now, client_vars, arg, analysis, web_vars, workers>>

ValidateNext == Validate

ValidateSpec == ValidateInit /\ [][ValidateNext]_vars

\* A parsed response with the five fields, a list of comments with the six
\* sub-fields each, and values of the closed sets only
WellFormed(r) ==
    /\ required_fields \subseteq DOMAIN r
    /\ IsList(r.inline_comments)
    /\ \A i \in DOMAIN r.inline_comments :
          /\ comment_fields \subseteq DOMAIN r.inline_comments[i]
          /\ r.inline_comments[i].severity \in Severities
          /\ r.inline_comments[i].category \in Categories
    /\ r.risk \in RiskLevels
    /\ r.approval_recommendation \in Recommendations

\* C19 -- Validation returns the parsed response as it is, with no error, when
\* the response has the five required fields, a list of comments with the six
\* sub-fields each and only values of the closed sets; a field more does not
\* matter.  With one required field removed, one sub-field of one comment
\* removed, or one of severity, category, risk and approval_recommendation set
\* to a value outside its set, validation raises and returns nothing; so it does
\* for every response that is not of the valid form.
C19_FailsClosed ==
    result # NotCalled =>
        /\ arg.change.kind = "none" =>
              (result.error = NoError /\ result.value = arg.base)
        /\ arg.change.kind \in {"remove", "substitute"} =>
              (result.error # NoError /\ result.value = NoReview)
        /\ (arg.response.json /\ WellFormed(arg.response.value)) =>
              (result.error = NoError /\ result.value = arg.response.value)
        /\ ~(arg.response.json /\ WellFormed(arg.response.value)) =>
              (result.error # NoError /\ result.value = NoReview)

\* The category of the second of two comments was set outside the set, and
\* validation raised on it
C19_Witness ==
    /\ result # NotCalled
    /\ arg.change = Change("substitute", 2, "category", "misc")
    /\ Len(arg.base.inline_comments) = 2
    /\ result.error = Message("Invalid category", 0)

\* ===================================================== the cap on comments
\* The limit of review_code_changes_batch applied to validated reviews.
MaxListLen == 4
MaxCap == 3

\* Comments of every severity, two of each so that ties can be told apart
CapSample == {Comment("a.py", n, s, "bug", "t") : n \in 1..2, s \in Severities}

CapInit ==
    /\ ServiceCallInit
    /\ \E cs \in SeqsUpTo(CapSample, MaxListLen), max_comments \in 0..MaxCap :
          arg = [review |-> Review(cs, "Low", "comment"), max_comments |-> max_comments]

Cap ==
    /\ result = NotCalled
    /\ result' = CapComments(arg.review, arg.max_comments)
    /\ UNCHANGED <<task_vars, _installation_tokens, now, client_vars, arg, analysis, web_vars, workers>>

CapNext == Cap

CapSpec == CapInit /\ [][CapNext]_vars

\* The rank of each severity
Rank == [high |-> 4, medium |-> 3, low |-> 2, nit |-> 1]

\* The comments of one severity, in the order of the list
OfSeverity(cs, sev) == SelectSeq(cs, LAMBDA c : c.severity = sev)

IsPrefix(s, t) == Len(s) <= Len(t) /\ s = SubSeq(t, 1, Len(s))

\* C20 -- When the review has more comments than max_comments, exactly
\* max_comments are kept.  The kept comments are in descending order of rank
\* (high 4, medium 3, low 2, nit 1); the kept comments of one severity are the
\* first ones of that severity in the original list, in their original order;
\* when a comment of some severity was dropped no kept comment has a lower rank;
\* the summary is the original summary with the note appended, and the other
\* fields are as they were.
C20_CapKeepsMostSevere ==
    (result # NotCalled /\ Len(arg.review.inline_comments) > arg.max_comments) =>
        LET given == arg.review.inline_comments
            kept == result.inline_comments
        IN  /\ Len(kept) = arg.max_comments
            /\ \A i, j \in DOMAIN kept :
                  i < j => Rank[kept[i].severity] >= Rank[kept[j].severity]
            /\ \A sev \in Severities :
                  /\ IsPrefix(OfSeverity(kept, sev), OfSeverity(given, sev))
                  /\ Len(OfSeverity(kept, sev)) < Len(OfSeverity(given, sev)) =>
                        \A i \in DOMAIN kept : Rank[kept[i].severity] >= Rank[sev]
            /\ result.summary = Append(arg.review.summary, "limited")
            /\ Len(result.summary) = Len(arg.review.summary) + 1
            /\ result.risk = arg.review.risk
            /\ result.breaking_changes = arg.review.breaking_changes
            /\ result.approval_recommendation = arg.review.approval_recommendation

\* Four comments, low, high, nit, high, capped at three: the two high comments
\* in their order, then the low one; the nit is dropped
C20_Witness ==
    /\ result # NotCalled
    /\ arg.max_comments = 3
    /\ arg.review.inline_comments =
          << Comment("a.py", 2, "low", "bug", "t"), Comment("a.py", 2, "high", "bug", "t"),
             Comment("a.py", 1, "nit", "bug", "t"), Comment("a.py", 1, "high", "bug", "t") >>
    /\ result.inline_comments =
          << Comment("a.py", 2, "high", "bug", "t"), Comment("a.py", 1, "high", "bug", "t"),
             Comment("a.py", 2, "low", "bug", "t") >>
    /\ result.summary = <<"summary", "limited">>

\* ------------------------------------------------ the cap applied twice
\* The limit applied to a review, and again to what it returned
CapFirst ==
    /\ result = NotCalled
    /\ result' = [first |-> CapComments(arg.review, arg.max_comments), second |-> NotCalled]
    /\ UNCHANGED <<task_vars, _installation_tokens, now, client_vars, arg, analysis, web_vars, workers>>

CapSecond ==
    /\ result # NotCalled
    /\ result.second = NotCalled
    /\ result' = [result EXCEPT !.second = CapComments(result.first, arg.max_comments)]
    /\ UNCHANGED <<task_vars, _installation_tokens, now, client_vars, arg, analysis, web_vars, workers>>

RecapNext ==
    \/ CapFirst
    \/ CapSecond

RecapSpec == CapInit /\ [][RecapNext]_vars

Recapped == result # NotCalled /\ result.second # NotCalled

\* C21 -- The limit applied with the same max_comments to a review that the
\* limit returned gives the same list of comments in the same order, the same
\* summary and the same other fields: the second application changes nothing.
C21_CapIdempotent ==
    Recapped =>
        /\ result.second.inline_comments = result.first.inline_comments
        /\ result.second.summary = result.first.summary
        /\ result.second = result.first

\* A list of four comments was cut to three, and the limit of three was
\* applied to the three
C21_Witness ==
    /\ Recapped
    /\ arg.max_comments = 3
    /\ Len(arg.review.inline_comments) = 4
    /\ Len(result.first.inline_comments) = 3
    /\ result.first.summary = <<"summary", "limited">>
    /\ result.first.inline_comments[1].severity = "high"
    /\ result.first.inline_comments[3].severity = "nit"

\* ========================================================= static analysis
\* AnalyzerService.analyze_files on the files of a pull request.  The handlers
\* of Python and of JavaScript files run their tools as subprocesses; what a
\* subprocess does is the choice of the environment.
Issue(tool, severity) == [tool |-> tool, severity |-> severity]

\* The standard output of a tool: nothing, text that is not JSON, or a JSON
\* document that is a list or an object, with the items read from it
Stdout(kind, shape, items) == [kind |-> kind, shape |-> shape, items |-> items]

NoOutput == Stdout("empty", "", <<>>)

\* What _run_command returns; cause is what happened to the subprocess
Command(exit_code, stdout, stderr, cause) ==
    [exit_code |-> exit_code, stdout |-> stdout, stderr |-> stderr, cause |-> cause]

Exited0 == Command(0, NoOutput, "", "ran")

\* _run_command, lines 86-88: create_subprocess_exec raised FileNotFoundError
NotInstalled == Command(-1, NoOutput, "No such file or directory", "not_installed")

\* _run_command, lines 83-85: asyncio.TimeoutError
TimedOut == Command(-1, NoOutput, "Command timed out", "timeout")

Reported(shape, items) == Command(1, Stdout("json", shape, items), "", "ran")

Garbled == Command(1, Stdout("text", "", <<>>), "internal error", "ran")

TextLines(items) == Command(1, Stdout("text", "", items), "", "ran")

\* What the subprocess of each tool may do.  A ruff item whose code is "null"
\* has a JSON null as its code
CommandResults(tool) ==
    CASE tool = "ruff" ->
            {Exited0, NotInstalled, TimedOut, Garbled,
             Reported("list", <<[code |-> "E501"]>>),
             Reported("list", <<[code |-> "W291"]>>),
             Reported("list", <<[code |-> "W291"], [code |-> "null"]>>)}
      [] tool = "black" ->
            {Exited0, NotInstalled, TimedOut, TextLines(<<>>)}
      [] tool = "bandit" ->
            {Exited0, NotInstalled, TimedOut, Garbled,
             Reported("dict", <<[issue_severity |-> "HIGH"]>>),
             Reported("dict", <<[issue_severity |-> "LOW"]>>),
             Reported("list", <<[issue_severity |-> "LOW"]>>)}
      [] tool = "mypy" ->
            {Exited0, NotInstalled, TimedOut, TextLines(<<[error |-> TRUE], [error |-> FALSE]>>)}
      [] tool = "eslint" ->
            {Exited0, NotInstalled, TimedOut, Garbled,
             Reported("list", <<[severity |-> 2]>>),
             Reported("list", <<[severity |-> 1]>>),
             Reported("dict", <<[severity |-> 1]>>)}
      [] tool = "prettier" ->
            {Exited0, NotInstalled, TimedOut, TextLines(<<>>)}

\* What the code of one tool does to the results of the file: the status of
\* the entry, the issues appended, and whether an exception left the code
ToolResult(status, issues, raised) ==
    [status |-> status, issues |-> issues, raised |-> raised]

\* The loop that converts items to issues, up to the item that raises
Converted(tool, items, Raises(_), SeverityOf(_)) ==
    LET bad == {i \in DOMAIN items : Raises(items[i])}
        stop == IF bad = {} THEN Len(items) + 1
                ELSE CHOOSE i \in bad : \A k \in bad : i <= k
    IN  [issues |-> [i \in 1..(stop - 1) |-> Issue(tool, SeverityOf(items[i]))],
         raised |-> bad # {}]

\* json.loads(stdout) if stdout else <default>
ItemsOf(stdout) == IF stdout.kind = "empty" THEN <<>> ELSE stdout.items

\* Fault variant: output that is not JSON is not caught
ruff_step_Unguarded(cmd) ==
    IF cmd.exit_code = 0
    THEN ToolResult("passed", <<>>, FALSE)
    ELSE IF cmd.stdout.kind = "text"
    THEN ToolResult("failed", <<>>, TRUE)
    ELSE LET c == Converted("ruff", ItemsOf(cmd.stdout),
                            LAMBDA item : item.code = "null",
                            LAMBDA item : IF item.code \in {"E501"} THEN "medium" ELSE "low")
         IN  ToolResult("failed", c.issues, c.raised)

\* _analyze_python, lines 107-130
ruff_step(cmd) ==
    IF cmd.exit_code = 0
    THEN ToolResult("passed", <<>>, FALSE)
    ELSE IF cmd.stdout.kind = "text"
    THEN ToolResult("error", <<>>, FALSE)
    ELSE LET c == Converted("ruff", ItemsOf(cmd.stdout),
                            LAMBDA item : item.code = "null",
                            LAMBDA item : IF item.code \in {"E501"} THEN "medium" ELSE "low")
         IN  ToolResult("failed", c.issues, c.raised)

\* _analyze_python, lines 133-148
black_step(cmd) ==
    IF cmd.exit_code = 0
    THEN ToolResult("passed", <<>>, FALSE)
    ELSE ToolResult("failed", <<Issue("black", "low")>>, FALSE)

\* _analyze_python, lines 151-173; a document that is a list has no .get
bandit_step(cmd) ==
    IF cmd.exit_code = 0
    THEN ToolResult("passed", <<>>, FALSE)
    ELSE IF cmd.stdout.kind = "text"
    THEN ToolResult("error", <<>>, FALSE)
    ELSE IF cmd.stdout.kind = "json" /\ cmd.stdout.shape = "list"
    THEN ToolResult("failed", <<>>, TRUE)
    ELSE LET c == Converted("bandit", ItemsOf(cmd.stdout),
                            LAMBDA item : FALSE,
                            LAMBDA item : IF item.issue_severity = "HIGH"
                                          THEN "high" ELSE "medium")
         IN  ToolResult("failed", c.issues, c.raised)

\* _analyze_python, lines 176-198
mypy_step(cmd) ==
    IF cmd.exit_code = 0
    THEN ToolResult("passed", <<>>, FALSE)
    ELSE LET lines == SelectSeq(ItemsOf(cmd.stdout), LAMBDA line : line.error)
         IN  ToolResult("failed", [i \in DOMAIN lines |-> Issue("mypy", "medium")], FALSE)

\* _analyze_javascript, lines 239-264; iterating an object yields its keys,
\* which have no .get
eslint_step(cmd) ==
    IF cmd.exit_code = 0
    THEN ToolResult("passed", <<>>, FALSE)
    ELSE IF cmd.stdout.kind = "text"
    THEN ToolResult("error", <<>>, FALSE)
    ELSE IF cmd.stdout.kind = "json" /\ cmd.stdout.shape = "dict"
    THEN ToolResult("failed", <<>>, TRUE)
    ELSE LET c == Converted("eslint", ItemsOf(cmd.stdout),
                            LAMBDA item : FALSE,
                            LAMBDA item : CASE item.severity = 2 -> "medium"
                                            [] item.severity = 3 -> "high"
                                            [] OTHER -> "low")
         IN  ToolResult("failed", c.issues, c.raised)

\* _analyze_javascript, lines 267-282
prettier_step(cmd) ==
    IF cmd.exit_code = 0
    THEN ToolResult("passed", <<>>, FALSE)
    ELSE ToolResult("failed", <<Issue("prettier", "low")>>, FALSE)

ToolStep(tool, cmd) ==
    CASE tool = "ruff" -> ruff_step(cmd)
      [] tool = "black" -> black_step(cmd)
      [] tool = "bandit" -> bandit_step(cmd)
      [] tool = "mypy" -> mypy_step(cmd)
      [] tool = "eslint" -> eslint_step(cmd)
      [] tool = "prettier" -> prettier_step(cmd)

\* _detect_language on the paths of the sample
detect_language(file_path) ==
    CASE file_path \in {"a.py"} -> "python"
      [] file_path \in {"b.js"} -> "javascript"
      [] OTHER -> "unknown"

\* Of self.supported_languages, the languages of the sample
supported_languages == {"python", "javascript"}

\* The tools a handler runs, in its order
ToolsOf(language, settings) ==
    IF language = "python"
    THEN (IF settings.enable_python_analyzers THEN <<"ruff">> ELSE <<>>)
            \o <<"black", "bandit", "mypy">>
    ELSE (IF settings.enable_js_analyzers THEN <<"eslint">> ELSE <<>>)
            \o <<"prettier">>

\* results of a handler at its start; commands keeps what each subprocess did
NewFileResults(language) ==
    [language |-> language, tools |-> <<>>, issues |-> <<>>, summary |-> None,
     error |-> NoError, commands |-> <<>>]

\* Fault variant: an issue of severity low is counted in no bucket
CountOf_NoLow(issues, severity) ==
    IF severity = "low" THEN 0
    ELSE Len(SelectSeq(issues, LAMBDA issue : issue.severity = severity))

CountOf(issues, severity) == Len(SelectSeq(issues, LAMBDA issue : issue.severity = severity))

\* The summary of one file, lines 209-219
FileSummary(issues) ==
    IF Len(issues) = 0
    THEN <<"No issues found">>
    ELSE <<"Found", Len(issues), CountOf(issues, "high"), CountOf(issues, "medium"),
           CountOf(issues, "low")>>

\* Fault variant: medium issues are looked at before high ones
OverallStatus_MediumFirst(summary) ==
    IF summary.total_issues = 0 THEN "clean"
    ELSE IF summary.issues_by_severity.medium > 0 THEN "warning"
    ELSE IF summary.issues_by_severity.high > 0 THEN "critical"
    ELSE "info"

\* analyze_files, lines 624-641
OverallStatus(summary) ==
    IF summary.total_issues = 0 THEN "clean"
    ELSE IF summary.issues_by_severity.high > 0 THEN "critical"
    ELSE IF summary.issues_by_severity.medium > 0 THEN "warning"
    ELSE "info"

\* analyze_files, lines 584-592
NewResults(paths) ==
    [files |-> <<>>,
     summary |-> [total_files |-> Len(paths), languages |-> <<>>, total_issues |-> 0,
                  issues_by_severity |-> [high |-> 0, medium |-> 0, low |-> 0],
                  overall_status |-> None]]

\* The pull requests analyzed
AnalyzerInputs ==
    [file_paths : {<<"a.py", "b.js">>, <<"b.js", "notes.txt", "a.py">>},
     file_contents : {{"a.py", "b.js", "notes.txt"}, {"a.py", "notes.txt"}},
     settings : {[enable_python_analyzers |-> TRUE, enable_js_analyzers |-> TRUE],
                 [enable_python_analyzers |-> FALSE, enable_js_analyzers |-> FALSE]}]

AnalyzerInit ==
    /\ TaskOff
    /\ _installation_tokens = [i \in InstallationIds |-> NoError]
    /\ now = 0
    /\ callers = <<>>
    /\ result = NotCalled
    /\ arg \in AnalyzerInputs
    /\ background_tasks = <<>>
    /\ job_queue = <<>>
    /\ workers = <<>>
    /\ analysis = [pc |-> "next_file", queue |-> arg.file_paths, path |-> None,
                   todo |-> <<>>, file |-> NewFileResults(None),
                   results |-> NewResults(arg.file_paths)]

AnalyzerFrame == UNCHANGED <<task_vars, _installation_tokens, now, client_vars, arg, web_vars, workers>>

\* analyze_files, lines 595-603: a file without content or of a language
\* without handler is passed over
SkipFile ==
    /\ analysis.pc = "next_file"
    /\ analysis.queue # <<>>
    /\ LET file_path == Head(analysis.queue) IN
         /\ \/ file_path \notin arg.file_contents
            \/ detect_language(file_path) \notin supported_languages
         /\ analysis' = [analysis EXCEPT !.queue = Tail(@)]
    /\ UNCHANGED result
    /\ AnalyzerFrame

\* analyze_files, lines 605-613: the language is counted and its handler called
EnterHandler ==
    /\ analysis.pc = "next_file"
    /\ analysis.queue # <<>>
    /\ LET file_path == Head(analysis.queue)
           language == detect_language(file_path)
           languages == analysis.results.summary.languages
       IN
         /\ file_path \in arg.file_contents
         /\ language \in supported_languages
         /\ analysis' = [analysis EXCEPT
               !.pc = "create_temp",
               !.queue = Tail(@),
               !.path = file_path,
               !.file = NewFileResults(language),
               !.results.summary.languages =
                   With(languages, language,
                        IF language \in DOMAIN languages THEN languages[language] + 1 ELSE 1)]
    /\ UNCHANGED result
    /\ AnalyzerFrame

\* The handler writes the content to a temporary file, lines 99-104; when that
\* raises, the except clause of the handler records it (lines 205-207)
CreateTempFile ==
    /\ analysis.pc = "create_temp"
    /\ \/ analysis' = [analysis EXCEPT
               !.pc = "tools",
               !.todo = ToolsOf(analysis.file.language, arg.settings)]
       \/ analysis' = [analysis EXCEPT
               !.pc = "summarize",
               !.file.error = Message("analysis failed", 0)]
    /\ UNCHANGED result
    /\ AnalyzerFrame

\* The handler runs its next tool and reads what it returned; an exception
\* leaves the try block, and the tools after it are not run
RunTool ==
    /\ analysis.pc = "tools"
    /\ analysis.todo # <<>>
    /\ LET tool == Head(analysis.todo) IN
         \E cmd \in CommandResults(tool) :
            LET r == ToolStep(tool, cmd)
                file == [analysis.file EXCEPT
                            !.tools = With(@, tool, [status |-> r.status]),
                            !.issues = @ \o r.issues,
                            !.commands = With(@, tool, cmd)]
            IN  analysis' =
                  IF r.raised
                  THEN [analysis EXCEPT
                           !.pc = "summarize",
                           !.todo = <<>>,
                           !.file = [file EXCEPT !.error = Message("analysis failed", 0)]]
                  ELSE [analysis EXCEPT
                           !.pc = IF Tail(analysis.todo) = <<>> THEN "summarize" ELSE "tools",
                           !.todo = Tail(@),
                           !.file = file]
    /\ UNCHANGED result
    /\ AnalyzerFrame

\* The handler returns its results with their summary (lines 209-219), and
\* analyze_files stores and counts them (lines 615-622)
StoreFileResults ==
    /\ analysis.pc = "summarize"
    /\ LET file == [analysis.file EXCEPT !.summary = FileSummary(analysis.file.issues)]
           issues == file.issues
       IN  analysis' = [analysis EXCEPT
               !.pc = "next_file",
               !.path = None,
               !.file = NewFileResults(None),
               !.results.files = With(@, analysis.path, file),
               !.results.summary.total_issues = @ + Len(issues),
               !.results.summary.issues_by_severity =
                   [sev \in {"high", "medium", "low"} |-> @[sev] + CountOf(issues, sev)]]
    /\ UNCHANGED result
    /\ AnalyzerFrame

\* analyze_files, lines 624-650: the overall status, and the return
ReturnResults ==
    /\ analysis.pc = "next_file"
    /\ analysis.queue = <<>>
    /\ LET results == [analysis.results EXCEPT
                          !.summary.overall_status = OverallStatus(analysis.results.summary)]
       IN  /\ result' = results
           /\ analysis' = [analysis EXCEPT !.pc = "returned", !.results = results]
    /\ AnalyzerFrame

AnalyzerNext ==
    \/ SkipFile
    \/ EnterHandler
    \/ CreateTempFile
    \/ RunTool
    \/ StoreFileResults
    \/ ReturnResults

AnalyzerSpec == AnalyzerInit /\ [][AnalyzerNext]_vars

\* ------------------------------------------------ properties of the analysis
\* The results of the files analyzed so far
StoredFiles == analysis.results.files

\* The subprocess of the tool did not run to its end
Unavailable(cmd) == cmd.cause \in {"not_installed", "timeout"}

IssuesOf(f, tool) == SelectSeq(f.issues, LAMBDA issue : issue.tool = tool)

\* C22 as stated -- in the results of a file, a tool whose subprocess was not
\* installed or timed out has the status error and no issue, and the entry of
\* every other tool is what the run of that tool alone determines.
C22_UnavailableIsError ==
    \A p \in DOMAIN StoredFiles :
        \A tool \in DOMAIN StoredFiles[p].commands :
            Unavailable(StoredFiles[p].commands[tool]) =>
                /\ StoredFiles[p].tools[tool].status = "error"
                /\ IssuesOf(StoredFiles[p], tool) = <<>>
                /\ \A other \in DOMAIN StoredFiles[p].tools \ {tool} :
                      StoredFiles[p].tools[other].status =
                          ToolStep(other, StoredFiles[p].commands[other]).status

\* The output of the tool is JSON of a form its conversion does not expect
IllFormed(tool, cmd) ==
    /\ cmd.stdout.kind = "json"
    /\ \/ tool = "ruff" /\ \E i \in DOMAIN cmd.stdout.items : cmd.stdout.items[i].code = "null"
       \/ tool = "bandit" /\ cmd.stdout.shape = "list"
       \/ tool = "eslint" /\ cmd.stdout.shape = "dict"

\* The tools of the handler up to and including the first whose output was
\* ill-formed
RunBeforeRaise(tools, commands) ==
    {tools[i] : i \in {k \in DOMAIN tools :
                         \A j \in 1..(k - 1) :
                            tools[j] \in DOMAIN commands /\ ~IllFormed(tools[j], commands[tools[j]])}}

HandlerRaised(f) ==
    \/ DOMAIN f.commands = {}
    \/ \E tool \in DOMAIN f.commands : IllFormed(tool, f.commands[tool])

\* C23 as stated -- whatever failed, every tool of the handler of a file has
\* its entry in the results of that file.
C23_NothingSkipped ==
    \A p \in DOMAIN StoredFiles :
        DOMAIN StoredFiles[p].tools = Range(ToolsOf(StoredFiles[p].language, arg.settings))

\* C23 -- A tool that is not installed, times out or prints what is not JSON
\* does not stop the handler: every tool of the handler gets its entry and the
\* file has no error.  An exception inside the handler (the temporary file, or
\* output of an unexpected form) is recorded as the error of the file and ends
\* the handler: the tools after it are not run.  In both cases analyze_files
\* goes on: it can always take a step until it has returned, and what it
\* returns holds the results of every file that has content and a handler,
\* and a summary with the number of files and an overall status.
C23_PartialResults ==
    /\ \A p \in DOMAIN StoredFiles :
          LET f == StoredFiles[p]
              tools == ToolsOf(f.language, arg.settings)
          IN  /\ ~HandlerRaised(f) =>
                    /\ f.error = NoError
                    /\ DOMAIN f.tools = Range(tools)
              /\ HandlerRaised(f) =>
                    /\ f.error # NoError
                    /\ DOMAIN f.tools = DOMAIN f.commands
                    /\ DOMAIN f.commands # {} =>
                          DOMAIN f.tools = RunBeforeRaise(tools, f.commands)
    /\ analysis.pc # "returned" => (result = NotCalled /\ ENABLED AnalyzerNext)
    /\ analysis.pc = "returned" =>
          /\ DOMAIN result.files =
                {p \in Range(arg.file_paths) :
                    p \in arg.file_contents /\ detect_language(p) \in supported_languages}
          /\ result.summary.total_files = Len(arg.file_paths)
          /\ result.summary.overall_status \in {"clean", "info", "warning", "critical"}

\* The handler of b.js raised on the output of eslint and did not run prettier;
\* a.py was analyzed after it, with ruff not installed, black timed out and
\* bandit printing no JSON, and mypy still ran
C23_Witness ==
    /\ analysis.pc = "returned"
    /\ arg.file_paths = <<"b.js", "notes.txt", "a.py">>
    /\ arg.settings.enable_python_analyzers
    /\ DOMAIN result.files = {"a.py", "b.js"}
    /\ result.files["b.js"].error # NoError
    /\ DOMAIN result.files["b.js"].tools = {"eslint"}
    /\ result.files["a.py"].error = NoError
    /\ result.files["a.py"].commands["ruff"] = NotInstalled
    /\ result.files["a.py"].commands["black"] = TimedOut
    /\ result.files["a.py"].commands["bandit"] = Garbled
    /\ result.files["a.py"].tools["mypy"].status = "failed"

\* There is an issue of the severity in the results of some file
AnyIssue(files, severity) ==
    \E p \in DOMAIN files :
        \E i \in DOMAIN files[p].issues : files[p].issues[i].severity = severity

\* C24 -- The overall status analyze_files returns is critical when some issue
\* of some file is high, else warning when some is medium, else info when some
\* is low, else clean; it is clean exactly when no file has an issue.
C24_OverallStatus ==
    analysis.pc = "returned" =>
        /\ result.summary.overall_status =
              IF AnyIssue(result.files, "high") THEN "critical"
              ELSE IF AnyIssue(result.files, "medium") THEN "warning"
              ELSE IF AnyIssue(result.files, "low") THEN "info"
              ELSE "clean"
        /\ result.summary.overall_status = "clean"
              <=> \A p \in DOMAIN result.files : result.files[p].issues = <<>>
        /\ result.summary.total_issues =
              SumSeq([i \in 1..Len(arg.file_paths) |->
                         IF arg.file_paths[i] \in DOMAIN result.files
                         THEN Len(result.files[arg.file_paths[i]].issues) ELSE 0])

\* A high issue in one file and a medium one in another: critical
C24_Witness ==
    /\ analysis.pc = "returned"
    /\ result.summary.overall_status = "critical"
    /\ DOMAIN result.files = {"a.py", "b.js"}
    /\ \E i \in DOMAIN result.files["a.py"].issues :
          result.files["a.py"].issues[i].severity = "high"
    /\ \A i \in DOMAIN result.files["a.py"].issues :
          result.files["a.py"].issues[i].severity = "high"
    /\ \E i \in DOMAIN result.files["b.js"].issues :
          result.files["b.js"].issues[i].severity = "medium"

\* ========================================================= the web application
\* The two endpoints of app.py that start reviews: the GitHub webhook and the
\* manual trigger.
github_webhook_secret == "webhook-secret"

\* hmac.new(key, payload, sha256).hexdigest(): a digest that differs when the
\* key or the payload differs
hmac_sha256(key, payload) == <<key, payload>>

\* A signature header: the text before the digest, and the digest
Signature(prefix, digest) == [prefix |-> prefix, digest |-> digest]

\* x_hub_signature_256 = None, the default of the parameter
NoSignature == <<>>

\* verify_github_signature, where the signature is a string
verify_github_signature(payload, signature) ==
    IF signature.prefix # "sha256="
    THEN FALSE
    ELSE signature.digest = hmac_sha256(github_webhook_secret, payload)

\* An object of the payload with no key
EmptyObject == <<>>

\* dict.get(key, default)
Get(d, key, default) == IF key \in DOMAIN d THEN d[key] ELSE default

\* A key of the payload: present with a value, or not there
Optional(values, filler) ==
    {[present |-> TRUE, value |-> v] : v \in values} \cup {[present |-> FALSE, value |-> filler]}

\* The JSON object with the keys that are present
Payload(fields) ==
    [k \in {key \in DOMAIN fields : fields[key].present} |-> fields[k].value]

Payloads ==
    {Payload([action |-> a, pull_request |-> p, repository |-> r, installation |-> i]) :
        a \in Optional({"opened", "synchronize", "ready_for_review", "closed", "edited"}, ""),
        p \in Optional({[number |-> 7]}, EmptyObject) \cup {[present |-> TRUE, value |-> EmptyObject]},
        r \in Optional({[name |-> "repo", owner |-> [login |-> "octo"]], [name |-> "repo"]},
                       EmptyObject) \cup {[present |-> TRUE, value |-> EmptyObject]},
        i \in Optional({[id |-> "inst-1"]}, EmptyObject) \cup {[present |-> TRUE, value |-> EmptyObject]}}

\* The raw body of a request: bytes that decode as UTF-8 or not, text that is
\* JSON or not, and the value of the JSON
Body(encoding, json, data) == [encoding |-> encoding, json |-> json, data |-> data]

Bodies ==
    {Body("utf-8", TRUE, data) : data \in Payloads}
        \cup {Body("utf-8", FALSE, EmptyObject), Body("other", FALSE, EmptyObject)}

\* The signatures a delivery with this body may carry
Signatures(body) ==
    {NoSignature,
     Signature("sha256=", hmac_sha256(github_webhook_secret, body)),
     Signature("sha256=", hmac_sha256("another-secret", body)),
     Signature("sha1=", hmac_sha256(github_webhook_secret, body)),
     Signature("sha256=", hmac_sha256(github_webhook_secret, Body("utf-8", FALSE, EmptyObject)))}

Deliveries ==
    UNION {{[x_github_event |-> e, x_hub_signature_256 |-> sig, body |-> body] :
                e \in {"pull_request", "issues", None}, sig \in Signatures(body)} :
           body \in Bodies}

ReviewRequests ==
    [owner : {"octo"}, repo : {"repo"}, pull_number : {7}, focus_area : {None, "security"}]

WebRequests ==
    {[endpoint |-> "/webhook/github", delivery |-> d] : d \in Deliveries}
        \cup {[endpoint |-> "/review", review_request |-> r] : r \in ReviewRequests}

Accepted == [status_code |-> HTTP_OK, body |-> [status |-> "accepted"]]

HTTPException(status_code, detail) == [status_code |-> status_code, body |-> [detail |-> detail]]

\* background_tasks.add_task(process_pr_review, **kwargs)
ReviewTask(kwargs) == [func |-> "process_pr_review", kwargs |-> kwargs]

\* What a handler did: its response and the calls it added to background_tasks
Handled(response, tasks) == [response |-> response, tasks |-> tasks]

\* Fault variant: a closed pull request is reviewed too
trigger_actions_WithClosed == {"opened", "synchronize", "ready_for_review", "closed"}

\* github_webhook, line 219
trigger_actions == {"opened", "synchronize", "ready_for_review"}

\* github_webhook: calling .startswith on None raises, and so does decoding
\* bytes that are not UTF-8 and reading a key that a block does not have; the
\* last except clause turns each into the response 500
github_webhook(delivery) ==
    LET payload == delivery.body
        signature == delivery.x_hub_signature_256
        webhook_data == payload.data
        action == Get(webhook_data, "action", None)
        pr_data == Get(webhook_data, "pull_request", EmptyObject)
        repo_data == Get(webhook_data, "repository", EmptyObject)
        installation_data == Get(webhook_data, "installation", EmptyObject)
    IN  IF signature = NoSignature
        THEN Handled(HTTPException(500, "Internal server error"), <<>>)
        ELSE IF ~verify_github_signature(payload, signature)
        THEN Handled(HTTPException(401, "Invalid signature"), <<>>)
        ELSE IF payload.encoding # "utf-8"
        THEN Handled(HTTPException(500, "Internal server error"), <<>>)
        ELSE IF ~payload.json
        THEN Handled(HTTPException(400, "Invalid JSON payload"), <<>>)
        ELSE IF delivery.x_github_event = "pull_request" /\ action \in trigger_actions
        THEN IF pr_data = EmptyObject \/ repo_data = EmptyObject \/ installation_data = EmptyObject
             THEN Handled(HTTPException(400, "Missing required data"), <<>>)
             ELSE IF ~({"owner", "name"} \subseteq DOMAIN repo_data)
             THEN Handled(HTTPException(500, "Internal server error"), <<>>)
             ELSE Handled(Accepted,
                          <<ReviewTask([owner |-> repo_data.owner.login,
                                        repo |-> repo_data.name,
                                        pull_number |-> pr_data.number,
                                        installation_id |-> installation_data.id,
                                        action |-> action])>>)
        ELSE Handled(Accepted, <<>>)

\* The answers of GET /repos/{owner}/{repo}/installation
InstallationAnswers == {HTTP_OK, 404, 500}

\* GitHubService.get_installation_id
get_installation_id(status_code) ==
    IF status_code = 404
    THEN [id |-> None, error |-> NoError]
    ELSE IF status_code # HTTP_OK
    THEN [id |-> None, error |-> Message("Failed to get installation ID", status_code)]
    ELSE [id |-> InstallationId, error |-> NoError]

\* trigger_review
trigger_review(review_request, status_code) ==
    LET found == get_installation_id(status_code) IN
        IF found.error # NoError
        THEN Handled(HTTPException(500, "Internal server error"), <<>>)
        ELSE IF found.id = None
        THEN Handled(HTTPException(404, "GitHub App not installed"), <<>>)
        ELSE Handled(Accepted,
                     <<ReviewTask([owner |-> review_request.owner,
                                   repo |-> review_request.repo,
                                   pull_number |-> review_request.pull_number,
                                   installation_id |-> found.id,
                                   action |-> "manual_trigger",
                                   focus_area |-> review_request.focus_area])>>)

WebInit ==
    /\ ServiceCallInit
    /\ arg \in WebRequests

WebFrame == UNCHANGED <<task_vars, _installation_tokens, now, client_vars, arg, analysis, workers>>

\* POST /webhook/github
GithubWebhook ==
    /\ result = NotCalled
    /\ arg.endpoint = "/webhook/github"
    /\ LET done == github_webhook(arg.delivery) IN
         /\ result' = [response |-> done.response, lookup |-> 0, ran |-> <<>>]
         /\ background_tasks' = done.tasks
    /\ UNCHANGED job_queue
    /\ WebFrame

\* POST /review
TriggerReview ==
    /\ result = NotCalled
    /\ arg.endpoint = "/review"
    /\ \E status_code \in InstallationAnswers :
         LET done == trigger_review(arg.review_request, status_code) IN
            /\ result' = [response |-> done.response, lookup |-> status_code, ran |-> <<>>]
            /\ background_tasks' = done.tasks
    /\ UNCHANGED job_queue
    /\ WebFrame

\* After the response is sent the framework calls what was added to
\* background_tasks: process_pr_review runs in the web process
RunBackgroundTasks ==
    /\ result # NotCalled
    /\ background_tasks # <<>>
    /\ result' = [result EXCEPT !.ran = background_tasks]
    /\ background_tasks' = <<>>
    /\ UNCHANGED job_queue
    /\ WebFrame

WebNext ==
    \/ GithubWebhook
    \/ TriggerReview
    \/ RunBackgroundTasks

WebSpec == WebInit /\ [][WebNext]_vars

\* ------------------------------------------------ properties of the endpoints
WebhookHandled == result # NotCalled /\ arg.endpoint = "/webhook/github"

ManualHandled == result # NotCalled /\ arg.endpoint = "/review"

\* The header is "sha256=" followed by the digest of the raw body under the
\* shared secret
ValidlySigned ==
    arg.delivery.x_hub_signature_256
        = Signature("sha256=", hmac_sha256(github_webhook_secret, arg.delivery.body))

JsonDelivery == arg.delivery.body.encoding = "utf-8" /\ arg.delivery.body.json

\* A pull_request delivery whose action is opened, synchronize or ready_for_review
TriggeringDelivery ==
    /\ arg.delivery.x_github_event = "pull_request"
    /\ JsonDelivery
    /\ "action" \in DOMAIN arg.delivery.body.data
    /\ arg.delivery.body.data.action \in {"opened", "synchronize", "ready_for_review"}

Block(name) == Get(arg.delivery.body.data, name, EmptyObject)

CompleteBlocks ==
    /\ "number" \in DOMAIN Block("pull_request")
    /\ {"name", "owner"} \subseteq DOMAIN Block("repository")
    /\ "id" \in DOMAIN Block("installation")

\* Every call added to background_tasks by the handler, run already or not
Scheduled == result.ran \o background_tasks

\* The review task of the delivery's payload
DeliveryTask ==
    ReviewTask([owner |-> Block("repository").owner.login,
                repo |-> Block("repository").name,
                pull_number |-> Block("pull_request").number,
                installation_id |-> Block("installation").id,
                action |-> arg.delivery.body.data.action])

\* C25: a validly signed pull_request delivery with an action in {opened,
\* synchronize, ready_for_review} and complete pull_request, repository and
\* installation blocks is answered with status "accepted" and puts exactly one
\* review task, with the owner, repo, pull number, installation id and action
\* of the payload, on the job queue.
C25_EnqueuedOnJobQueue ==
    (WebhookHandled /\ ValidlySigned /\ TriggeringDelivery /\ CompleteBlocks)
        => /\ result.response = Accepted
           /\ job_queue = <<DeliveryTask>>

\* The delivery of C25 is accepted and its one review task is a background
\* call of the web process; nothing is on the job queue
C25_Witness ==
    /\ WebhookHandled /\ ValidlySigned /\ TriggeringDelivery /\ CompleteBlocks
    /\ result.response = Accepted
    /\ Scheduled = <<DeliveryTask>>
    /\ job_queue = <<>>

\* C26: every delivery whose signature is not "sha256=" followed by the
\* HMAC-SHA256 of the raw body under the shared secret is answered 401 and
\* schedules no review task; a delivery signed with the secret is not answered
\* 401.
C26_BadSignatureIs401 ==
    WebhookHandled
        => /\ ~ValidlySigned
                => /\ result.response.status_code = 401
                   /\ Scheduled = <<>>
                   /\ job_queue = <<>>
           /\ ValidlySigned => result.response.status_code # 401

\* A delivery without a signature is answered 500
C26_Witness ==
    /\ WebhookHandled
    /\ arg.delivery.x_hub_signature_256 = NoSignature
    /\ result.response.status_code = 500
    /\ Scheduled = <<>>

\* C27: a validly signed JSON delivery of another event, or with an action
\* other than opened, synchronize and ready_for_review, is answered with status
\* "accepted" and schedules no review task; whenever a delivery schedules a
\* review task it is a pull_request delivery with one of those three actions.
C27_OnlyTriggerActions ==
    WebhookHandled
        => /\ (ValidlySigned /\ JsonDelivery /\ ~TriggeringDelivery)
                => /\ result.response = Accepted
                   /\ Scheduled = <<>>
                   /\ job_queue = <<>>
           /\ Scheduled # <<>> => TriggeringDelivery

\* A validly signed pull_request delivery with action closed and complete
\* blocks was accepted and scheduled nothing
C27_Witness ==
    /\ WebhookHandled /\ ValidlySigned /\ JsonDelivery /\ CompleteBlocks
    /\ arg.delivery.x_github_event = "pull_request"
    /\ Get(arg.delivery.body.data, "action", None) = "closed"
    /\ result.response = Accepted
    /\ Scheduled = <<>>

\* C28: a validly signed pull_request delivery with a triggering action and a
\* missing or empty pull_request, repository or installation block is answered
\* 400 "Missing required data" and schedules no review task; a validly signed
\* delivery whose body is not valid JSON is answered 400 "Invalid JSON payload".
C28_MalformedIs400 ==
    (WebhookHandled /\ ValidlySigned)
        => /\ (TriggeringDelivery
                  /\ \E name \in {"pull_request", "repository", "installation"} :
                        Block(name) = EmptyObject)
                => /\ result.response = HTTPException(400, "Missing required data")
                   /\ Scheduled = <<>>
                   /\ job_queue = <<>>
           /\ ~JsonDelivery
                => result.response = HTTPException(400, "Invalid JSON payload")

\* A validly signed body that is not UTF-8 text is answered 500
C28_Witness ==
    /\ WebhookHandled /\ ValidlySigned
    /\ arg.delivery.body.encoding # "utf-8"
    /\ result.response.status_code = 500

\* The review task of a manual request
ManualTask ==
    ReviewTask([owner |-> arg.review_request.owner,
                repo |-> arg.review_request.repo,
                pull_number |-> arg.review_request.pull_number,
                installation_id |-> InstallationId,
                action |-> "manual_trigger",
                focus_area |-> arg.review_request.focus_area])

\* C29: when the installation lookup yields none (404) the manual trigger
\* answers 404 and schedules nothing; when it yields an id, exactly one review
\* task, tagged manual_trigger and carrying the focus area, is put on the job
\* queue and the response status is "accepted"; a task is on the job queue only
\* if the lookup yielded an id.
C29_ManualTriggerOnJobQueue ==
    ManualHandled
        => /\ result.lookup = 404
                => /\ result.response.status_code = 404
                   /\ Scheduled = <<>>
                   /\ job_queue = <<>>
           /\ result.lookup = HTTP_OK
                => /\ result.response = Accepted
                   /\ job_queue = <<ManualTask>>
           /\ job_queue # <<>> => result.lookup = HTTP_OK

\* A manual request with a focus area whose installation resolved: accepted,
\* one background call of the web process, nothing on the job queue
C29_Witness ==
    /\ ManualHandled
    /\ result.lookup = HTTP_OK
    /\ arg.review_request.focus_area = "security"
    /\ result.response = Accepted
    /\ Scheduled = <<ManualTask>>
    /\ job_queue = <<>>

\* ------------------------------------------------------------ the check run
\* The per-file review of every commented file and the summary review of the
\* current attempt's session are on GitHub
PostingFinished ==
    /\ "post_summary" \in Range(trace)
    /\ post_queue = <<>>
    /\ \A path \in Range(FilesInOrder(review_data.inline_comments)) \cup {"summary"} :
         \E k \in DOMAIN posts :
            posts[k].session = review_session_id /\ posts[k].path = path

\* C30: a step that creates a check run creates one, for the session of the
\* current attempt, with conclusion failure when the review's risk is High,
\* neutral when it is Medium and success otherwise, and it is taken only when
\* the posting step of that attempt has finished without error.
C30_CheckRunFromRisk ==
    [][check_runs' # check_runs
          => /\ PostingFinished
             /\ err = NoError
             /\ check_runs' = Append(check_runs,
                    [session |-> review_session_id,
                     conclusion |-> CASE review_data.risk = "High" -> "failure"
                                      [] review_data.risk = "Medium" -> "neutral"
                                      [] OTHER -> "success"])]_vars

\* A check run with conclusion neutral was created for the current session
\* after per-file reviews and the summary were posted
C30_Witness ==
    /\ check_runs # <<>>
    /\ check_runs[Len(check_runs)] = [session |-> review_session_id, conclusion |-> "neutral"]
    /\ review_data.risk = "Medium"
    /\ "post_review_comment" \in Range(trace)
    /\ "create_check_run" \in Range(trace)
    /\ PostingFinished

\* ================================================== tasks running side by side
\* Two deliveries for the same pull request are processed by two workers at the
\* same time.  Each worker executes the statements of process_pr_review,
\* _run_review_process and _post_comments_to_github one at a time; the tables
\* are shared.
Workers == {"w1", "w2"}

\* One statement of the task: what it does (op), which (name), and whether an
\* exception it raises is caught on the spot
Statement(op, name) == [op |-> op, name |-> name, caught |-> FALSE]

Caught(statement) == [statement EXCEPT !.caught = TRUE]

\* Fault variant: the session that marks the comments is opened before the
\* review of the file is posted
TaskProgram_SessionAroundPost ==
    << Statement("open", "create_session"),
       Statement("db", "create_session"),
       Statement("close", "create_session"),
       Statement("call", "get_pull_request"),
       Statement("call", "get_pull_request_diff"),
       Statement("call", "get_pull_request_files"),
       Statement("call", "get_repository_languages"),
       Caught(Statement("call", "get_file_content")),
       Statement("local", "analyze_files"),
       Statement("call", "review_code_changes_batch"),
       Statement("open", "save_comments"),
       Statement("db", "save_comments"),
       Statement("close", "save_comments"),
       Statement("local", "comments_by_file"),
       Statement("for", "comments_by_file"),
       Statement("open", "update_posted"),
       Statement("call", "post_review_comment"),
       Statement("db", "update_posted"),
       Statement("close", "update_posted"),
       Statement("jump", "comments_by_file"),
       Statement("call", "post_summary"),
       Statement("call", "create_check_run"),
       Statement("open", "mark_completed"),
       Statement("db", "mark_completed"),
       Statement("close", "mark_completed"),
       Statement("return", "success"),
       Statement("except", "handler"),
       Statement("open", "mark_failed"),
       Statement("db", "mark_failed"),
       Statement("close", "mark_failed"),
       Statement("raise", "handler") >>

\* The statements of one attempt in the order of the source: "open" and "close"
\* are the entry and the exit of a `with get_db_session()` block, "db" is its
\* body with the commit, "call" an awaited call of the GitHub client or of the
\* AI service, "local" a computation of the worker
TaskProgram ==
    << Statement("open", "create_session"),                 \* process_pr_review 99
       Statement("db", "create_session"),                   \* 100-110
       Statement("close", "create_session"),
       Statement("call", "get_pull_request"),               \* _run_review_process 199
       Statement("call", "get_pull_request_diff"),          \* 200
       Statement("call", "get_pull_request_files"),         \* 201
       Statement("call", "get_repository_languages"),       \* 204
       Caught(Statement("call", "get_file_content")),       \* 216-227
       Statement("local", "analyze_files"),                 \* 232
       Statement("call", "review_code_changes_batch"),      \* 241
       Statement("open", "save_comments"),                  \* 252
       Statement("db", "save_comments"),                    \* 253-281
       Statement("close", "save_comments"),
       Statement("local", "comments_by_file"),              \* _post_comments_to_github 346-351
       Statement("for", "comments_by_file"),                \* 354
       Statement("call", "post_review_comment"),            \* 376
       Statement("open", "update_posted"),                  \* 381
       Statement("db", "update_posted"),                    \* 382-396
       Statement("close", "update_posted"),
       Statement("jump", "comments_by_file"),
       Statement("call", "post_summary"),                   \* 404
       Statement("call", "create_check_run"),               \* _run_review_process 298
       Statement("open", "mark_completed"),                 \* process_pr_review 127
       Statement("db", "mark_completed"),                   \* 128-136
       Statement("close", "mark_completed"),
       Statement("return", "success"),                      \* 144
       Statement("except", "handler"),                      \* 150-162
       Statement("open", "mark_failed"),                    \* 163
       Statement("db", "mark_failed"),                      \* 164-177
       Statement("close", "mark_failed"),
       Statement("raise", "handler") >>                     \* 180-190

\* The position of the one statement with this op (the loop head, its end, the
\* except clause, the raise that ends it)
At(op) == CHOOSE i \in DOMAIN TaskProgram : TaskProgram[i].op = op

\* The reviews the AI service returns to the workers
WorkerReviews == {ReviewTwoFiles, ReviewDuplicates}

\* self.request of a worker's task
WorkerRequest(w) == [id |-> w, args |-> WebhookArgs]

\* A worker at the first statement of the task
WorkerStart ==
    [pc |-> 1,
     state |-> "running",
     review_session_id |-> NoSessionId,
     db_session |-> FALSE,
     in_flight |-> None,
     raising |-> FALSE,
     handling |-> FALSE,
     e |-> NoError,
     review_data |-> NoReview,
     comments_by_file |-> <<>>]

WorkerInit ==
    /\ TaskOff
    /\ _installation_tokens = [i \in InstallationIds |-> NoError]
    /\ now = 0
    /\ callers = <<>>
    /\ arg = NotCalled
    /\ result = NotCalled
    /\ analysis = NotCalled
    /\ background_tasks = <<>>
    /\ job_queue = <<>>
    /\ workers = [w \in Workers |-> WorkerStart]

WorkerFrame ==
    UNCHANGED <<request, pull, granted, retries, pc, review_session_id, err, locals, github,
                scheduled, trace, calls, warnings, rejections, _installation_tokens, now,
                client_vars, arg, result, analysis, web_vars>>

\* The statement the worker is at
Current(w) == TaskProgram[workers[w].pc]

Running(w) == workers[w].state = "running"

\* Fault variant: no except clause, the exception leaves the task at once
Raised_Unhandled(me, e) == [me EXCEPT !.state = "raised", !.raising = FALSE, !.e = e]

\* Where an exception takes the worker: into the except clause of
\* process_pr_review, or out of the task when it is raised inside that clause
Raised(me, e) ==
    IF me.handling
    THEN [me EXCEPT !.state = "raised", !.raising = FALSE, !.e = e]
    ELSE [me EXCEPT !.pc = At("except"), !.raising = FALSE, !.e = e]

\* session = SessionLocal()
OpenSession(w) ==
    /\ Running(w)
    /\ Current(w).op = "open"
    /\ workers' = [workers EXCEPT ![w].db_session = TRUE, ![w].pc = @ + 1]
    /\ UNCHANGED db
    /\ WorkerFrame

\* What the body of a `with` block writes when it commits
Committed(w, name) ==
    LET me == workers[w]
        id == me.review_session_id
    IN  CASE name = "create_session" ->
               [sessions |-> InsertSession(sessions), comments |-> comments,
                me |-> [me EXCEPT !.review_session_id = Len(sessions) + 1]]
          [] name = "save_comments" ->
               IF SessionFound(id)
               THEN [sessions |-> [sessions EXCEPT ![id] =
                                      ResultRow(@, me.review_data, <<"a.py", "b.py">>, PullRequestFiles)],
                     comments |-> comments \o CommentRows(id, me.review_data),
                     me |-> me]
               ELSE [sessions |-> sessions, comments |-> comments, me |-> me]
          [] name = "update_posted" ->
               LET batch == CommentsOfFile(me.review_data.inline_comments,
                                           Head(me.comments_by_file))
               IN  [sessions |-> sessions,
                    comments |-> [i \in DOMAIN comments |->
                                    IF i \in MarkedRows(comments, id, batch)
                                    THEN PostedRow(comments[i])
                                    ELSE comments[i]],
                    me |-> [me EXCEPT !.comments_by_file = Tail(@)]]
          [] name = "mark_completed" ->
               [sessions |-> IF SessionFound(id)
                             THEN [sessions EXCEPT ![id] = CompletedRow(@)]
                             ELSE sessions,
                comments |-> comments, me |-> me]
          [] name = "mark_failed" ->
               [sessions |-> IF SessionFound(id)
                             THEN [sessions EXCEPT ![id] =
                                      FailedRow(@, me.e, WorkerRequest(w), 0)]
                             ELSE sessions,
                comments |-> comments, me |-> me]

\* The body of a `with get_db_session()` block: it commits, or it raises and
\* the block is left through rollback and close
DbStatement(w) ==
    /\ Running(w)
    /\ Current(w).op = "db"
    /\ \E ok \in BOOLEAN :
         IF ok
         THEN LET done == Committed(w, Current(w).name) IN
                 /\ sessions' = done.sessions
                 /\ comments' = done.comments
                 /\ workers' = [workers EXCEPT ![w] = [done.me EXCEPT !.pc = @ + 1]]
         ELSE /\ workers' = [workers EXCEPT ![w].raising = TRUE, ![w].pc = @ + 1]
              /\ UNCHANGED db
    /\ WorkerFrame

\* get_db_session, lines 71-77: commit or rollback, then session.close(); a
\* pending exception goes on to the except clause
CloseSession(w) ==
    /\ Running(w)
    /\ Current(w).op = "close"
    /\ LET closed == [workers[w] EXCEPT !.db_session = FALSE] IN
         workers' = [workers EXCEPT ![w] =
                        IF closed.raising
                        THEN Raised(closed, DatabaseError)
                        ELSE [closed EXCEPT !.pc = @ + 1]]
    /\ UNCHANGED db
    /\ WorkerFrame

\* An awaited call of the GitHub client or of the AI service is issued
SendCall(w) ==
    /\ Running(w)
    /\ Current(w).op = "call"
    /\ workers[w].in_flight = None
    /\ workers' = [workers EXCEPT ![w].in_flight = Current(w).name]
    /\ UNCHANGED db
    /\ WorkerFrame

\* The call returns or raises; the exception of get_file_content is caught in
\* the loop, every other one leaves _run_review_process
CallReturns(w) ==
    /\ Running(w)
    /\ Current(w).op = "call"
    /\ workers[w].in_flight # None
    /\ LET back == [workers[w] EXCEPT !.in_flight = None] IN
         \/ /\ Current(w).name # "review_code_changes_batch"
            /\ workers' = [workers EXCEPT ![w] = [back EXCEPT !.pc = @ + 1]]
         \/ /\ Current(w).name = "review_code_changes_batch"
            /\ \E review \in WorkerReviews :
                 workers' = [workers EXCEPT ![w] =
                                [back EXCEPT !.pc = @ + 1, !.review_data = review]]
         \/ /\ Current(w).caught
            /\ workers' = [workers EXCEPT ![w] = [back EXCEPT !.pc = @ + 1]]
         \/ /\ ~Current(w).caught
            /\ workers' = [workers EXCEPT ![w] =
                              Raised([back EXCEPT !.db_session = FALSE],
                                     Message("call failed", 500))]
    /\ UNCHANGED db
    /\ WorkerFrame

\* A computation of the worker on its own locals
Local(w) ==
    /\ Running(w)
    /\ Current(w).op = "local"
    /\ LET me == workers[w] IN
         workers' = [workers EXCEPT ![w] =
                        IF Current(w).name = "comments_by_file"
                        THEN [me EXCEPT !.pc = @ + 1,
                                        !.comments_by_file =
                                            FilesInOrder(me.review_data.inline_comments)]
                        ELSE [me EXCEPT !.pc = @ + 1]]
    /\ UNCHANGED db
    /\ WorkerFrame

\* The loop over comments_by_file, the return, the except clause and its raise
Control(w) ==
    /\ Running(w)
    /\ LET me == workers[w]
           op == Current(w).op
       IN  /\ op \in {"for", "jump", "return", "except", "raise"}
           /\ workers' = [workers EXCEPT ![w] =
                 CASE op = "for" ->
                        IF me.comments_by_file = <<>>
                        THEN [me EXCEPT !.pc = At("jump") + 1]
                        ELSE [me EXCEPT !.pc = @ + 1]
                   [] op = "jump" -> [me EXCEPT !.pc = At("for")]
                   [] op = "return" -> [me EXCEPT !.state = "success"]
                   [] op = "except" ->
                        IF me.review_session_id # NoSessionId
                        THEN [me EXCEPT !.handling = TRUE, !.pc = @ + 1]
                        ELSE [me EXCEPT !.handling = TRUE, !.pc = At("raise")]
                   [] op = "raise" -> [me EXCEPT !.state = "raised"]]
    /\ UNCHANGED db
    /\ WorkerFrame

\* The next statement of one worker
WorkerStep(w) ==
    \/ OpenSession(w)
    \/ DbStatement(w)
    \/ CloseSession(w)
    \/ SendCall(w)
    \/ CallReturns(w)
    \/ Local(w)
    \/ Control(w)

WorkerNext == \E w \in Workers : WorkerStep(w)

WorkerSpec == WorkerInit /\ [][WorkerNext]_vars

\* A worker that is not killed goes on to its next statement, and every call
\* it awaits returns or raises (the clients set timeouts)
FairWorkerSpec == WorkerSpec /\ \A w \in Workers : WF_vars(WorkerStep(w))

\* ----------------------------------------------- properties of the workers
\* The comment rows of a session
RowsOf(id) == {i \in DOMAIN comments : comments[i].review_session_id = id}

\* C31: while a GitHub request or the AI invocation of a worker is in flight,
\* that worker has no open database session; a session is open only between
\* the entry of one `with get_db_session()` block and its exit, and no worker
\* leaves the task with a session open.
C31_NoSessionAcrossCalls ==
    \A w \in Workers :
        /\ workers[w].in_flight # None => ~workers[w].db_session
        /\ workers[w].db_session => Current(w).op \in {"db", "close"}
        /\ workers[w].state # "running" => ~workers[w].db_session

\* A worker waits for GitHub to accept the review of a file, after it committed
\* its comments, while the other worker is inside a `with` block
C31_Witness ==
    \E w \in Workers, v \in Workers :
        /\ w # v
        /\ workers[w].in_flight = "post_review_comment"
        /\ RowsOf(workers[w].review_session_id) # {}
        /\ ~workers[w].db_session
        /\ workers[v].db_session

\* C37: two tasks for the same pull request never share a session row, and a
\* step of one task adds or changes only the session row of that task and
\* comment rows of that task's session; no row is ever deleted.
C37_Isolated ==
    /\ [](\A w \in Workers, v \in Workers :
            (w # v /\ workers[w].review_session_id # NoSessionId)
                => workers[w].review_session_id # workers[v].review_session_id)
    /\ [][\A w \in Workers :
            workers'[w] # workers[w] =>
                /\ Len(sessions') >= Len(sessions)
                /\ Len(comments') >= Len(comments)
                /\ \A i \in DOMAIN sessions' :
                     (i \notin DOMAIN sessions \/ sessions'[i] # sessions[i])
                        => i = workers'[w].review_session_id
                /\ \A i \in DOMAIN comments' :
                     (i \notin DOMAIN comments \/ comments'[i] # comments[i])
                        => comments'[i].review_session_id = workers'[w].review_session_id]_vars

\* Both workers persisted the same comments, each under its own session, and
\* each marked a row of its own as posted
C37_Witness ==
    /\ workers["w1"].review_data = workers["w2"].review_data
    /\ workers["w1"].review_session_id # workers["w2"].review_session_id
    /\ \A w \in Workers :
         \E i \in RowsOf(workers[w].review_session_id) : comments[i].posted_to_github

\* ------------------------------------------------ the posting step, as a whole
\* The reviews GitHub accepted from the current attempt, in order
PostsOfAttempt == SelectSeq(posts, LAMBDA p : p.session = review_session_id)

\* The distinct files the comments of the review are on
CommentedFiles == {review_data.inline_comments[i].path : i \in DOMAIN review_data.inline_comments}

\* The posting step of the current attempt has finished without error
PostingDone == "post_summary" \in Range(trace)

\* C32: when the posting step of an attempt has finished without error for a
\* review whose comments are on k distinct files, the attempt has made exactly
\* k + 1 review posts: one per file, each carrying exactly the comments of that
\* file in the order of the review, and then the summary, which carries none.
C32_BatchPerFileThenSummary ==
    PostingDone =>
        LET mine == PostsOfAttempt
            k == Cardinality(CommentedFiles)
        IN  /\ Len(mine) = k + 1
            /\ mine[k + 1].path = "summary"
            /\ mine[k + 1].batch = <<>>
            /\ {mine[i].path : i \in 1..k} = CommentedFiles
            /\ \A i \in 1..k :
                 mine[i].batch = SelectSeq(review_data.inline_comments,
                                           LAMBDA c : c.path = mine[i].path)

\* The posting of a review with comments on two files finished: three posts
C32_Witness ==
    /\ PostingDone
    /\ Cardinality(CommentedFiles) = 2
    /\ Len(PostsOfAttempt) = 3
    /\ PostsOfAttempt[3].path = "summary"

\* C33: when the posting step of an attempt has finished without error, every
\* comment row of the attempt's session has posted_to_github set, also when the
\* review has two comments with the same path, start line and body.
C33_AllRowsPosted ==
    PostingDone =>
        \A i \in DOMAIN comments :
            comments[i].review_session_id = review_session_id => comments[i].posted_to_github

\* The posting of a review with two identical comments finished: both were
\* sent to GitHub in one batch, one row is marked and the other is not
C33_Witness ==
    /\ PostingDone
    /\ review_data = ReviewDuplicates
    /\ \E i, j \in DOMAIN comments :
         /\ i # j
         /\ comments[i].review_session_id = review_session_id
         /\ comments[j].review_session_id = review_session_id
         /\ comments[i].posted_to_github
         /\ ~comments[j].posted_to_github
    /\ \E k \in DOMAIN posts :
         posts[k].session = review_session_id /\ Len(posts[k].batch) = 2

\* ------------------------------------------------------ the end of an attempt
Completed == {i \in DOMAIN sessions : sessions[i].status = "completed"}

\* C34: the write that marks a session completed is the last step of the task:
\* the task is then at its return with success, the completed session is the
\* one of that attempt and the only completed one, no retry is waiting in the
\* queue, and no step of the task (no write, no retry, no further attempt)
\* follows.
C34_CompletedIsFinal ==
    /\ [](Completed # {} =>
            /\ pc = "success"
            /\ Completed = {review_session_id}
            /\ Len(scheduled) = retries)
    /\ [][Completed = {}]_vars

\* The third attempt completed its session; the rows of the two attempts
\* before it are failed
C34_Witness ==
    /\ pc = "success"
    /\ retries = 2
    /\ Completed = {3}
    /\ sessions[1].status = "failed"
    /\ sessions[2].status = "failed"

\* The worker left the task: it returned or an exception left it
Left(w) == workers[w].state # "running"

\* The write of the except clause itself failed: the exception left the task
\* from the exit of that `with` block
HandlerWriteFailed(w) ==
    /\ workers[w].state = "raised"
    /\ workers[w].handling
    /\ Current(w) = Statement("close", "mark_failed")

C36_HandlerWithoutSession ==
    [][pc = "handler" =>
          /\ review_session_id = NoSessionId => sessions' = sessions
          /\ pc' = (IF retries < 3 THEN "retry" ELSE "raised")
          /\ err' = err ]_vars

\* The session insert of the second attempt failed: the task waits for its
\* next retry, and the row of the first attempt is as that attempt left it
C36_Witness ==
    /\ pc = "retry"
    /\ retries = 1
    /\ review_session_id = NoSessionId
    /\ err = DatabaseError
    /\ Len(sessions) = 1
    /\ sessions[1].status = "failed"
    /\ sessions[1].error_details.retry_count = 0

\* ------------------------------------------------------- a refused exchange
\* C38: when an exchange is answered with a status other than 201, the
\* operation ends by raising the token error without issuing its request, and
\* the cache is left as it was for every installation; an operation entered
\* while the installation has no entry, or an expired one, posts an exchange.
C38_RefusedExchangeKeepsCache ==
    [][\A c \in Callers :
          /\ (Answered(c) /\ callers[c].response.status_code # HTTP_CREATED) =>
                /\ _installation_tokens' = _installation_tokens
                /\ callers'[c].pc = "idle"
                /\ callers'[c].outcome = <<"token_error", callers[c].response.status_code>>
                /\ callers'[c].sent = 0
          /\ \A i \in InstallationIds :
                (Enters(c, i) /\ (Entry(i) = NoError \/ now >= Entry(i).expires_at)) =>
                    /\ callers'[c].pc = "exchange"
                    /\ _installation_tokens' = _installation_tokens]_vars

\* The exchange of one caller was refused after the other caller's exchange for
\* the same installation had filled the entry: the entry is still there
C38_Witness ==
    /\ callers["r1"].pc = "idle"
    /\ callers["r1"].outcome = <<"token_error", 401>>
    /\ callers["r2"].pc = "send"
    /\ callers["r2"].exchanges = 1
    /\ callers["r2"].installation_id = InstallationId
    /\ Entry(InstallationId) # NoError
    /\ Entry(InstallationId).token = callers["r2"].token
    /\ \A i \in InstallationIds \ {InstallationId} : Entry(i) = NoError

\* ------------------------------------------- a file whose content is not fetched
\* C39: a round of the loop over the changed files never leaves the loop for
\* the except clause, whatever get_file_content did: the path is appended to
\* file_paths, the next file is taken, and a file that was not fetched is only
\* missing from file_contents. analyze_files is then called with every changed
\* path and returns without raising; the AI step and the session record get
\* the same list.
C39_FetchFailureTolerated ==
    /\ [][(pc = "get_file_content" /\ file_queue # <<>>) =>
            /\ pc' = "get_file_content"
            /\ err' = err
            /\ file_paths' = Append(file_paths, Head(file_queue).filename)
            /\ file_queue' = Tail(file_queue)
            /\ file_contents \subseteq file_contents'
            /\ file_contents' \subseteq file_contents \cup {Head(file_queue).filename}]_vars
    /\ [][(pc = "get_file_content" /\ file_queue = <<>>) =>
            /\ file_paths = <<"a.py", "b.py">>
            /\ pc' = "review_code_changes_batch"
            /\ err' = err
            /\ file_paths' = file_paths]_vars
    /\ [](pc \in {"review_code_changes_batch", "save_comments"} =>
            file_paths = <<"a.py", "b.py">>)
    /\ [](\A i \in DOMAIN sessions :
            sessions[i].files_changed \in {<<>>, << <<"a.py", "b.py">> >>})

\* The first attempt completed although the content of a file was not
\* fetched: the warning was logged and the session lists both changed files
C39_Witness ==
    /\ pc = "success"
    /\ retries = 0
    /\ warnings # {}
    /\ Completed = {1}
    /\ sessions[1].files_changed = << <<"a.py", "b.py">> >>

\* ----------------------------------------------- the summary of analyze_files
\* C40: in the results analyze_files returns, total_issues is the number of
\* issue records of the analyzed files and the sum of the high, medium and low
\* counts, each of which is the number of records of its severity; the counts
\* per language add up to the number of analyzed files, each being the number
\* of analyzed files of that language; total_files is the number of paths
\* passed in, so a path without content or of an unsupported extension is in
\* total_files and in no language.
C40_SummaryConsistent ==
    analysis.pc = "returned" =>
        LET summary == result.summary
            files == result.files
            paths == arg.file_paths
            by == summary.issues_by_severity
            Records(sev) ==
                SumSeq([i \in 1..Len(paths) |->
                          IF paths[i] \in DOMAIN files
                          THEN Len(SelectSeq(files[paths[i]].issues,
                                             LAMBDA issue : issue.severity = sev))
                          ELSE 0])
            Counted(language) ==
                IF language \in DOMAIN summary.languages
                THEN summary.languages[language] ELSE 0
        IN  /\ summary.total_issues = Records("high") + Records("medium") + Records("low")
            /\ summary.total_issues = by.high + by.medium + by.low
            /\ \A sev \in {"high", "medium", "low"} : by[sev] = Records(sev)
            /\ \A p \in DOMAIN files :
                  \A i \in DOMAIN files[p].issues :
                      files[p].issues[i].severity \in {"high", "medium", "low"}
            /\ DOMAIN summary.languages \subseteq {"python", "javascript"}
            /\ Counted("python") + Counted("javascript") = Cardinality(DOMAIN files)
            /\ \A language \in DOMAIN summary.languages :
                  summary.languages[language] =
                      Cardinality({p \in DOMAIN files : files[p].language = language})
            /\ Cardinality(DOMAIN files) <= summary.total_files
            /\ summary.total_files = Len(paths)
            /\ DOMAIN files =
                  {p \in Range(paths) : p \in arg.file_contents /\ p \in {"a.py", "b.js"}}

\* Of three paths one had no content and one no supported extension: one file
\* was analyzed, with a high and a low issue
C40_Witness ==
    /\ analysis.pc = "returned"
    /\ arg.file_paths = <<"b.js", "notes.txt", "a.py">>
    /\ arg.file_contents = {"a.py", "notes.txt"}
    /\ DOMAIN result.files = {"a.py"}
    /\ result.summary.total_files = 3
    /\ DOMAIN result.summary.languages = {"python"}
    /\ result.summary.languages["python"] = 1
    /\ result.summary.total_issues = 2
    /\ result.summary.issues_by_severity = [high |-> 1, medium |-> 0, low |-> 1]

====
